---- MODULE Spec2Model ----
(***************************************************************************)
(* TutorFlow backend: booking lifecycle, attendance marking, no-show       *)
(* policy, payment paths and refund calculation, modelled as one state     *)
(* machine.  Every handler runs to completion in one step.                 *)
(*                                                                         *)
(* Time is counted in hours.  Dates are day numbers; every month of the    *)
(* model has DaysPerMonth days, so that the first month ends with day      *)
(* DaysPerMonth and the second starts on the day after.                     *)
(* Enum members are modelled by their ORM string values, as the comment at *)
(* attendance.py:74 states; members of different str-enums compare equal   *)
(* when their values are equal, as they do in Python.                      *)
(***************************************************************************)
EXTENDS Integers, Sequences, FiniteSets, TLC

\* ---------------------------------------------------------------- bounds
MaxBookings == 1
MaxSessions == 2
MaxTicks == 1
MaxRefundSessions == 4

\* ------------------------------------------------------ program constants
HoursPerDay == 24
MinLeadHours == 24
SessionHours == 1
PlaceholderUserId == 1
FeeRatePercent == 5

\* ------------------------------------------------------------ value sets
None == "None"
NoTime == 0 - 1
NoUser == 0 - 1
DaysPerMonth == 15 + 15
TickDays == 1 + 2

BookingStatus == {"PENDING", "APPROVED", "IN_PROGRESS", "COMPLETED", "CANCELLED", "REJECTED"}
SessionStatus == {"SCHEDULED", "COMPLETED", "CANCELLED", "NO_SHOW"}
AttendanceStatus == {"ATTENDED", "NO_SHOW", "CANCELLED"}
PaymentStatus == {"PENDING", "PAID", "FAILED", "REFUNDED", "PARTIALLY_REFUNDED"}
NoShowPolicy == {"FULL_DEDUCTION", "ONE_FREE", "NONE"}

\* Inputs the handlers are called with.
TutorIds == {1, 2, 3}          \* 1 approved, 2 not approved, 3 unknown
StudentIds == {1}
CallerIds == {1, 2}            \* 1 owns the bookings, 2 is somebody else
SlotDays == {DaysPerMonth, DaysPerMonth + 1}
SlotStarts == {9, 10}
Amounts == {200000}
RefundAmounts == {200000, 70001}
NowStart == (DaysPerMonth - 1) * HoursPerDay + 9

VARIABLES
    now,        \* the wall clock, in hours
    tutors,     \* tutor_id -> [is_approved, no_show_policy]
    bookings,   \* sequence of Booking rows, id = index
    sessions,   \* sequence of BookingSession rows, id = index
    payments,   \* booking_id -> Payment row of the booking, or NoPayment
    handled_months,
                \* history: the months in which handle_no_show has succeeded
                \* for a session dated in that month (the model has one
                \* (tutor, student) pair)
    last,       \* the handler that ran last and what it returned
    settlements,
                \* sequence of Settlement rows, id = index
    calls       \* process -> the frame of its operation in progress: a
                \* settlement run or a booking request between two of its
                \* database steps, or the arguments of a pending call

vars == <<now, tutors, bookings, sessions, payments, handled_months, last,
          settlements, calls>>

\* ------------------------------------------------------------ time helpers
DayOf(t) == t \div HoursPerDay
MonthOf(day) == (day - 1) \div DaysPerMonth + 1
\* datetime.now().strftime("%Y-%m")
CurrentYearMonth == MonthOf(DayOf(now))

\* ---------------------------------------------------------- schedule.py
TimeRange(start, end) == [start_time |-> start, end_time |-> end]

overlaps(a, b) == ~(a.end_time <= b.start_time \/ a.start_time >= b.end_time)

ScheduleSlot(day, start, end) == [date |-> day, time_range |-> TimeRange(start, end)]

SlotStart(slot) == slot.date * HoursPerDay + slot.time_range.start_time

\* is_future without the 24 hour lead.
is_future_no_lead(slot) == SlotStart(slot) >= now

is_future(slot) == SlotStart(slot) >= now + MinLeadHours

Slots ==
    {ScheduleSlot(d, s, s + SessionHours) : d \in SlotDays, s \in SlotStarts}
        \ {ScheduleSlot(DaysPerMonth + 1, 10, 10 + SessionHours)}

\* Slot lists a request carries: one slot, or two slots in time order.
SlotLists ==
    {<<a>> : a \in Slots}
        \cup {<<p[1], p[2]>> : p \in {q \in Slots \X Slots : SlotStart(q[2]) > SlotStart(q[1])}}

\* ------------------------------------------------------------ repositories
BookingIds == 1..Len(bookings)
SessionIds == 1..Len(sessions)

\* BookingRepository.find_conflicting_slots
slot_conflicts(tutor_id, slot) ==
    \E b \in BookingIds :
        /\ bookings[b].tutor_id = tutor_id
        /\ bookings[b].status \in {"APPROVED", "IN_PROGRESS"}
        /\ \E s \in SessionIds :
            /\ sessions[s].booking_id = b
            /\ sessions[s].session_date = slot.date
            /\ overlaps(slot.time_range,
                        TimeRange(sessions[s].session_time,
                                  sessions[s].session_time + SessionHours))

find_conflicting_slots(tutor_id, slots) ==
    {i \in 1..Len(slots) : slot_conflicts(tutor_id, slots[i])}

\* create_sessions that stops after the first slot.
create_sessions_first_slot(booking_id, slots) ==
    [i \in 1..(IF Len(slots) > 1 THEN 1 ELSE Len(slots)) |->
        [booking_id |-> booking_id,
         session_date |-> slots[i].date,
         session_time |-> slots[i].time_range.start_time,
         status |-> "SCHEDULED",
         attendance_checked_at |-> NoTime,
         attendance_checked_by |-> NoUser,
         notes |-> None]]

\* BookingRepository.create_sessions
create_sessions(booking_id, slots) ==
    [i \in 1..Len(slots) |->
        [booking_id |-> booking_id,
         session_date |-> slots[i].date,
         session_time |-> slots[i].time_range.start_time,
         status |-> "SCHEDULED",
         attendance_checked_at |-> NoTime,
         attendance_checked_by |-> NoUser,
         notes |-> None]]

NoValue == <<>>

Result(op, code) == [op |-> op, code |-> code, is_billable |-> FALSE, value |-> NoValue]

NoPayment == [status |-> None, amount |-> 0]

\* ------------------------------------------------------------ booking.py
\* create_booking_request_code with the conflict query moved before the
\* is_future loop.
create_booking_request_code_conflict_first(student_id, tutor_id, slots) ==
    IF tutor_id \notin DOMAIN tutors THEN "TUTOR_NOT_FOUND"
    ELSE IF ~tutors[tutor_id].is_approved THEN "TUTOR_NOT_APPROVED"
    ELSE IF find_conflicting_slots(tutor_id, slots) # {} THEN "SCHEDULE_CONFLICT"
    ELSE IF \E i \in 1..Len(slots) : ~is_future(slots[i]) THEN "SLOT_TOO_SOON"
    ELSE "OK"

create_booking_request_code(student_id, tutor_id, slots) ==
    IF tutor_id \notin DOMAIN tutors THEN "TUTOR_NOT_FOUND"
    ELSE IF ~tutors[tutor_id].is_approved THEN "TUTOR_NOT_APPROVED"
    ELSE IF \E i \in 1..Len(slots) : ~is_future(slots[i]) THEN "SLOT_TOO_SOON"
    ELSE IF find_conflicting_slots(tutor_id, slots) # {} THEN "SCHEDULE_CONFLICT"
    ELSE "OK"

create_booking_request(student_id, tutor_id, slots, notes) ==
    LET code == create_booking_request_code(student_id, tutor_id, slots)
        id == Len(bookings) + 1
    IN  /\ IF code = "OK"
           THEN /\ bookings' = Append(bookings,
                       [student_id |-> student_id,
                        tutor_id |-> tutor_id,
                        total_sessions |-> Len(slots),
                        completed_sessions |-> 0,
                        status |-> "PENDING",
                        notes |-> notes])
                /\ sessions' = sessions \o create_sessions(id, slots)
                /\ payments' = Append(payments, NoPayment)
                /\ last' = Result("create_booking_request", code)
           ELSE /\ UNCHANGED <<bookings, sessions, payments>>
                /\ last' = Result("create_booking_request", code)
        /\ UNCHANGED <<now, tutors, handled_months,
                       settlements, calls>>

\* approve_booking_code without the status guard.
approve_booking_code_any_status(booking_id, tutor_id) ==
    IF booking_id \notin BookingIds THEN "BOOKING_NOT_FOUND"
    ELSE IF bookings[booking_id].tutor_id # tutor_id THEN "NOT_AUTHORIZED"
    ELSE "OK"


approve_booking_code(booking_id, tutor_id) ==
    IF booking_id \notin BookingIds THEN "BOOKING_NOT_FOUND"
    ELSE IF bookings[booking_id].tutor_id # tutor_id THEN "NOT_AUTHORIZED"
    ELSE IF bookings[booking_id].status # "PENDING" THEN "INVALID_STATUS"
    ELSE "OK"

approve_booking(booking_id, tutor_id) ==
    LET code == approve_booking_code(booking_id, tutor_id)
    IN  /\ IF code = "OK"
           THEN bookings' = [bookings EXCEPT ![booking_id].status = "APPROVED"]
           ELSE UNCHANGED bookings
        /\ last' = Result("approve_booking", code)
        /\ UNCHANGED <<now, tutors, sessions, payments, handled_months,
                       settlements, calls>>

reject_booking_code(booking_id, tutor_id) ==
    IF booking_id \notin BookingIds THEN "BOOKING_NOT_FOUND"
    ELSE IF bookings[booking_id].tutor_id # tutor_id THEN "NOT_AUTHORIZED"
    ELSE IF bookings[booking_id].status # "PENDING" THEN "INVALID_STATUS"
    ELSE "OK"

\* f"[REJECTED] {reason or 'No reason provided'}\n{booking.notes or ''}"
rejected_notes(notes) == <<"[REJECTED]", notes>>

reject_booking(booking_id, tutor_id) ==
    LET code == reject_booking_code(booking_id, tutor_id)
    IN  /\ IF code = "OK"
           THEN bookings' = [bookings EXCEPT
                    ![booking_id].status = "REJECTED",
                    ![booking_id].notes = rejected_notes(@)]
           ELSE UNCHANGED bookings
        /\ last' = Result("reject_booking", code)
        /\ UNCHANGED <<now, tutors, sessions, payments, handled_months,
                       settlements, calls>>

\* cancel_booking_code with the status test before the authorization.
cancel_booking_code_status_first(booking_id, user_id, is_tutor) ==
    IF booking_id \notin BookingIds THEN "BOOKING_NOT_FOUND"
    ELSE IF bookings[booking_id].status \notin {"PENDING", "APPROVED"} THEN "INVALID_STATUS"
    ELSE IF is_tutor /\ bookings[booking_id].tutor_id # user_id THEN "NOT_AUTHORIZED"
    ELSE IF ~is_tutor /\ bookings[booking_id].student_id # user_id THEN "NOT_AUTHORIZED"
    ELSE "OK"

cancel_booking_code(booking_id, user_id, is_tutor) ==
    IF booking_id \notin BookingIds THEN "BOOKING_NOT_FOUND"
    ELSE IF is_tutor /\ bookings[booking_id].tutor_id # user_id THEN "NOT_AUTHORIZED"
    ELSE IF ~is_tutor /\ bookings[booking_id].student_id # user_id THEN "NOT_AUTHORIZED"
    ELSE IF bookings[booking_id].status \notin {"PENDING", "APPROVED"} THEN "INVALID_STATUS"
    ELSE "OK"

cancel_booking(booking_id, user_id, is_tutor) ==
    LET code == cancel_booking_code(booking_id, user_id, is_tutor)
    IN  /\ IF code = "OK"
           THEN bookings' = [bookings EXCEPT ![booking_id].status = "CANCELLED"]
           ELSE UNCHANGED bookings
        /\ last' = Result("cancel_booking", code)
        /\ UNCHANGED <<now, tutors, sessions, payments, handled_months,
                       settlements, calls>>

\* -------------------------------------------------- use_cases/attendance.py
\* Port methods of the booking repository that the use cases call.
find_session_by_id(ss, session_id) == ss[session_id]

update_session(ss, session_id, session) == [ss EXCEPT ![session_id] = session]

\* BookingRepository.save, the branch that updates an existing row
save(bk, booking_id, booking) ==
    [bk EXCEPT ![booking_id].status = booking.status,
               ![booking_id].completed_sessions = booking.completed_sessions,
               ![booking_id].notes = booking.notes]

count_no_shows_in_month(bk, ss, tutor_id, student_id, year_month) ==
    Cardinality({i \in 1..Len(ss) :
        /\ ss[i].status = "NO_SHOW"
        /\ bk[ss[i].booking_id].tutor_id = tutor_id
        /\ bk[ss[i].booking_id].student_id = student_id
        /\ MonthOf(ss[i].session_date) = year_month})

\* Deadline of a session: 23:59 of the day after the session date.
deadline_passed(session, t) == t >= (session.session_date + 2) * HoursPerDay

find_sessions_past_deadline(ss, t) ==
    {i \in 1..Len(ss) : ss[i].status = "SCHEDULED" /\ deadline_passed(ss[i], t)}

\* mark_attendance_code without the session-status guard.
mark_attendance_code_unguarded(ss, session_id) ==
    IF session_id \notin 1..Len(ss) THEN "SESSION_NOT_FOUND" ELSE "OK"

\* The session-status guard of mark_attendance: the outer test compares the
\* stored status with the AttendanceStatus members by value.
mark_attendance_code(ss, session_id) ==
    IF session_id \notin 1..Len(ss) THEN "SESSION_NOT_FOUND"
    ELSE IF ss[session_id].status \notin AttendanceStatus
              /\ ss[session_id].status \notin {"SCHEDULED"}
         THEN "INVALID_SESSION_STATUS"
    ELSE "OK"

marked_status(status) ==
    CASE status = "ATTENDED" -> "COMPLETED"
      [] status = "NO_SHOW" -> "NO_SHOW"
      [] status = "CANCELLED" -> "CANCELLED"

\* mark_attendance_db that counts a NO_SHOW mark as a completed session.
mark_attendance_db_counting_no_show(db, session_id, status, checked_by_id, notes, t) ==
    IF mark_attendance_code(db.sessions, session_id) # "OK" THEN db
    ELSE
        LET session == find_session_by_id(db.sessions, session_id)
            booking == db.bookings[session.booking_id]
            session2 == [session EXCEPT
                            !.status = marked_status(status),
                            !.attendance_checked_at = t,
                            !.attendance_checked_by = checked_by_id,
                            !.notes = notes]
            booking2 == IF status \in {"ATTENDED", "NO_SHOW"}
                        THEN [booking EXCEPT !.completed_sessions = @ + 1]
                        ELSE booking
            booking3 == IF booking2.completed_sessions >= booking2.total_sessions
                        THEN [booking2 EXCEPT !.status = "COMPLETED"]
                        ELSE booking2
        IN  [bookings |-> save(db.bookings, session.booking_id, booking3),
             sessions |-> update_session(db.sessions, session_id, session2)]

\* The body of mark_attendance on a database db = [bookings, sessions];
\* the database is returned as it was when the call raises.
mark_attendance_db(db, session_id, status, checked_by_id, notes, t) ==
    IF mark_attendance_code(db.sessions, session_id) # "OK" THEN db
    ELSE
        LET session == find_session_by_id(db.sessions, session_id)
            booking == db.bookings[session.booking_id]
            session2 == [session EXCEPT
                            !.status = marked_status(status),
                            !.attendance_checked_at = t,
                            !.attendance_checked_by = checked_by_id,
                            !.notes = notes]
            booking2 == IF status = "ATTENDED"
                        THEN [booking EXCEPT !.completed_sessions = @ + 1]
                        ELSE booking
            booking3 == IF booking2.completed_sessions >= booking2.total_sessions
                        THEN [booking2 EXCEPT !.status = "COMPLETED"]
                        ELSE booking2
        IN  [bookings |-> save(db.bookings, session.booking_id, booking3),
             sessions |-> update_session(db.sessions, session_id, session2)]

mark_attendance(session_id, status, checked_by_id, notes) ==
    LET db == [bookings |-> bookings, sessions |-> sessions]
        out == mark_attendance_db(db, session_id, status, checked_by_id, notes, now)
    IN  /\ bookings' = out.bookings
        /\ sessions' = out.sessions
        /\ last' = Result("mark_attendance", mark_attendance_code(sessions, session_id))
        /\ UNCHANGED <<now, tutors, payments, handled_months,
                       settlements, calls>>

\* ------------------------------------------------ value_objects/no_show_policy.py
\* is_billable_on_no_show that forgives the first two no-shows under ONE_FREE.
is_billable_on_no_show_two_free(policy_type, monthly_no_show_count, is_first_no_show_of_month) ==
    IF policy_type = "FULL_DEDUCTION" THEN TRUE
    ELSE IF policy_type = "ONE_FREE" THEN monthly_no_show_count > 2
    ELSE FALSE

is_billable_on_no_show(policy_type, monthly_no_show_count, is_first_no_show_of_month) ==
    IF policy_type = "FULL_DEDUCTION" THEN TRUE
    ELSE IF policy_type = "ONE_FREE" THEN ~is_first_no_show_of_month
    ELSE FALSE

handle_no_show_code(session_id) ==
    IF session_id \notin SessionIds THEN "SESSION_NOT_FOUND"
    ELSE IF bookings[sessions[session_id].booking_id].tutor_id \notin DOMAIN tutors
         THEN "TUTOR_NOT_FOUND"
    ELSE mark_attendance_code(sessions, session_id)

handle_no_show_billable(session_id) ==
    LET booking == bookings[sessions[session_id].booking_id]
        tutor == tutors[booking.tutor_id]
        no_show_count == count_no_shows_in_month(bookings, sessions,
                            booking.tutor_id, booking.student_id, CurrentYearMonth)
        is_first_of_month == (no_show_count = 0)
    IN  is_billable_on_no_show(tutor.no_show_policy, no_show_count + 1, is_first_of_month)

handle_no_show(session_id, checked_by_id, notes) ==
    LET code == handle_no_show_code(session_id)
        db == [bookings |-> bookings, sessions |-> sessions]
        out == mark_attendance_db(db, session_id, "NO_SHOW", checked_by_id, notes, now)
    IN  /\ bookings' = out.bookings
        /\ sessions' = out.sessions
        /\ last' = [Result("handle_no_show", code) EXCEPT
                        !.is_billable = IF code = "OK"
                                        THEN handle_no_show_billable(session_id)
                                        ELSE FALSE]
        /\ handled_months' =
                IF code = "OK"
                   /\ MonthOf(sessions[session_id].session_date) = CurrentYearMonth
                THEN handled_months \cup {CurrentYearMonth}
                ELSE handled_months
        /\ UNCHANGED <<now, tutors, payments,
                       settlements, calls>>

\* The loop of auto_mark_attendance_deadline over the sessions found, from id i on.
RECURSIVE auto_mark_from(_, _, _, _)
auto_mark_from(db, found, i, t) ==
    IF i > Len(db.sessions) THEN db
    ELSE auto_mark_from(
            IF i \in found
            THEN mark_attendance_db(db, i, "ATTENDED", NoUser, "Auto-marked", t)
            ELSE db,
            found, i + 1, t)

auto_mark_attendance_deadline ==
    LET db == [bookings |-> bookings, sessions |-> sessions]
        found == find_sessions_past_deadline(sessions, now)
        out == auto_mark_from(db, found, 1, now)
    IN  /\ bookings' = out.bookings
        /\ sessions' = out.sessions
        /\ last' = Result("auto_mark_attendance_deadline", "OK")
        /\ UNCHANGED <<now, tutors, payments, handled_months,
                       settlements, calls>>

\* ------------------------------------------- repositories/attendance_repository.py
increment_completed_sessions(bk, booking_id) ==
    [bk EXCEPT ![booking_id].completed_sessions = @ + 1]

\* update_session_attendance that also moves the session to the day of the mark.
update_session_attendance_moving(db, session_id, status, checked_by, t) ==
    LET old_status == db.sessions[session_id].status
        ss == [db.sessions EXCEPT
                  ![session_id].status = status,
                  ![session_id].session_date = DayOf(t),
                  ![session_id].attendance_checked_at = t,
                  ![session_id].attendance_checked_by = checked_by]
    IN  [bookings |-> IF status = "COMPLETED" /\ old_status # "COMPLETED"
                      THEN increment_completed_sessions(db.bookings,
                                                        db.sessions[session_id].booking_id)
                      ELSE db.bookings,
         sessions |-> ss]

update_session_attendance(db, session_id, status, checked_by, t) ==
    LET old_status == db.sessions[session_id].status
        ss == [db.sessions EXCEPT
                  ![session_id].status = status,
                  ![session_id].attendance_checked_at = t,
                  ![session_id].attendance_checked_by = checked_by]
    IN  [bookings |-> IF status = "COMPLETED" /\ old_status # "COMPLETED"
                      THEN increment_completed_sessions(db.bookings,
                                                        db.sessions[session_id].booking_id)
                      ELSE db.bookings,
         sessions |-> ss]

\* update_session_status that leaves the booking's counter alone.
update_session_status_uncounted(db, session_id, status, t) ==
    LET ss == [db.sessions EXCEPT
                  ![session_id].status = status,
                  ![session_id].attendance_checked_at = t]
    IN  [bookings |-> db.bookings,
         sessions |-> ss]

update_session_status(db, session_id, status, t) ==
    LET old_status == db.sessions[session_id].status
        ss == [db.sessions EXCEPT
                  ![session_id].status = status,
                  ![session_id].attendance_checked_at = t]
    IN  [bookings |-> IF status = "COMPLETED" /\ old_status # "COMPLETED"
                      THEN increment_completed_sessions(db.bookings,
                                                        db.sessions[session_id].booking_id)
                      ELSE db.bookings,
         sessions |-> ss]

\* get_sessions_needing_attendance without the SCHEDULED filter.
get_sessions_needing_attendance_any_status(day) ==
    {i \in SessionIds :
        /\ sessions[i].session_date * HoursPerDay + sessions[i].session_time
              <= day * HoursPerDay
        /\ bookings[sessions[i].booking_id].status \in {"APPROVED", "IN_PROGRESS"}}

\* session_date, a datetime, is compared with the day given, a date at 00:00
get_sessions_needing_attendance(day) ==
    {i \in SessionIds :
        /\ sessions[i].status = "SCHEDULED"
        /\ sessions[i].session_date * HoursPerDay + sessions[i].session_time
              <= day * HoursPerDay
        /\ bookings[sessions[i].booking_id].status \in {"APPROVED", "IN_PROGRESS"}}

\* ------------------------------------------------ api/v1/routes/attendance.py
route_mark_attendance_code(session_id, status) ==
    IF status \notin {"COMPLETED", "NO_SHOW"} THEN "INVALID_STATUS"
    ELSE IF session_id \notin SessionIds THEN "SESSION_NOT_FOUND"
    ELSE IF sessions[session_id].status # "SCHEDULED" THEN "SESSION_ALREADY_MARKED"
    ELSE "OK"

route_mark_attendance(session_id, status) ==
    LET code == route_mark_attendance_code(session_id, status)
        db == [bookings |-> bookings, sessions |-> sessions]
        out == IF code = "OK"
               THEN update_session_attendance(db, session_id, status, PlaceholderUserId, now)
               ELSE db
    IN  /\ bookings' = out.bookings
        /\ sessions' = out.sessions
        /\ last' = Result("route_mark_attendance", code)
        /\ UNCHANGED <<now, tutors, payments, handled_months,
                       settlements, calls>>

\* ------------------------------------------- tasks/jobs/auto_attendance_job.py
RECURSIVE auto_attendance_from(_, _, _, _)
auto_attendance_from(db, found, i, t) ==
    IF i > Len(db.sessions) THEN db
    ELSE auto_attendance_from(
            IF i \in found THEN update_session_status(db, i, "COMPLETED", t) ELSE db,
            found, i + 1, t)

auto_attendance_job ==
    LET db == [bookings |-> bookings, sessions |-> sessions]
        found == get_sessions_needing_attendance(DayOf(now))
        out == auto_attendance_from(db, found, 1, now)
    IN  /\ bookings' = out.bookings
        /\ sessions' = out.sessions
        /\ last' = Result("auto_attendance_job", "OK")
        /\ UNCHANGED <<now, tutors, payments, handled_months,
                       settlements, calls>>

\* What a run of auto_attendance_job started in this state would report and
\* leave behind.
auto_attendance_job_run ==
    LET db == [bookings |-> bookings, sessions |-> sessions]
        found == get_sessions_needing_attendance(DayOf(now))
        out == auto_attendance_from(db, found, 1, now)
    IN  [processed |-> Cardinality(found),
         bookings |-> out.bookings,
         sessions |-> out.sessions]

\* The same for auto_mark_attendance_deadline; processed is the length of
\* the list it returns.
auto_mark_attendance_deadline_run ==
    LET db == [bookings |-> bookings, sessions |-> sessions]
        found == find_sessions_past_deadline(sessions, now)
        out == auto_mark_from(db, found, 1, now)
    IN  [processed |-> Cardinality(found),
         bookings |-> out.bookings,
         sessions |-> out.sessions]

\* ---------------------------------------------------- use_cases/payment.py
\* One Payment row per booking: payments[booking_id].  The gateway's answer
\* is an input of the handler.
GatewayConfirmStatuses == {"PAID", "FAILED"}
GatewayCancelStatuses == {"REFUNDED", "PARTIALLY_REFUNDED"}
TossStatuses == {"DONE", "CANCELED", "PARTIAL_CANCELED", "FAILED", "EXPIRED", "READY"}

find_by_booking_id(booking_id) ==
    IF booking_id \in BookingIds THEN payments[booking_id] ELSE NoPayment

confirm_payment_code(booking_id, gateway_status) ==
    IF booking_id \notin BookingIds THEN "BOOKING_NOT_FOUND"
    ELSE IF gateway_status # "PAID" THEN "PAYMENT_NOT_SUCCESSFUL"
    ELSE "OK"

confirm_payment(booking_id, amount, gateway_status) ==
    LET code == confirm_payment_code(booking_id, gateway_status)
    IN  /\ IF code = "OK"
           THEN /\ payments' = [payments EXCEPT
                        ![booking_id] = [status |-> "PAID", amount |-> amount]]
                /\ bookings' = [bookings EXCEPT ![booking_id].status = "APPROVED"]
           ELSE UNCHANGED <<payments, bookings>>
        /\ last' = Result("confirm_payment", code)
        /\ UNCHANGED <<now, tutors, sessions, handled_months,
                       settlements, calls>>

cancel_payment_code(booking_id) ==
    IF find_by_booking_id(booking_id) = NoPayment THEN "PAYMENT_NOT_FOUND" ELSE "OK"

cancel_payment(booking_id, gateway_status) ==
    LET code == cancel_payment_code(booking_id)
    IN  /\ IF code = "OK"
           THEN /\ payments' = [payments EXCEPT ![booking_id].status = gateway_status]
                /\ bookings' = IF gateway_status = "REFUNDED"
                               THEN [bookings EXCEPT ![booking_id].status = "CANCELLED"]
                               ELSE bookings
           ELSE UNCHANGED <<payments, bookings>>
        /\ last' = Result("cancel_payment", code)
        /\ UNCHANGED <<now, tutors, sessions, handled_months,
                       settlements, calls>>

status_map(toss_status) ==
    CASE toss_status = "DONE" -> "PAID"
      [] toss_status = "CANCELED" -> "REFUNDED"
      [] toss_status = "PARTIAL_CANCELED" -> "PARTIALLY_REFUNDED"
      [] toss_status \in {"FAILED", "EXPIRED"} -> "FAILED"
      [] OTHER -> None

handle_webhook_code(booking_id) ==
    IF find_by_booking_id(booking_id) = NoPayment THEN "PAYMENT_NOT_FOUND" ELSE "processed"

handle_webhook(booking_id, toss_status) ==
    LET code == handle_webhook_code(booking_id)
        new_status == status_map(toss_status)
    IN  /\ IF code = "processed" /\ new_status # None
           THEN /\ payments' = [payments EXCEPT ![booking_id].status = new_status]
                /\ bookings' =
                       IF new_status = "PAID" /\ bookings[booking_id].status = "PENDING"
                       THEN [bookings EXCEPT ![booking_id].status = "APPROVED"]
                       ELSE IF new_status = "REFUNDED"
                       THEN [bookings EXCEPT ![booking_id].status = "CANCELLED"]
                       ELSE bookings
           ELSE UNCHANGED <<payments, bookings>>
        /\ last' = Result("handle_webhook", code)
        /\ UNCHANGED <<now, tutors, sessions, handled_months,
                       settlements, calls>>

\* int(refund_amount * fee_rate), fee_rate = 0.05
platform_fee_of(refund_amount) == (refund_amount * FeeRatePercent) \div 100

refund_estimate(booking, payment) ==
    LET total_paid == payment.amount
        total_sessions == booking.total_sessions
        completed_sessions == booking.completed_sessions
        remaining_sessions == total_sessions - completed_sessions
        session_rate == IF total_sessions > 0 THEN total_paid \div total_sessions ELSE 0
        refund_amount == session_rate * remaining_sessions
    IN  [total_paid |-> total_paid,
         total_sessions |-> total_sessions,
         completed_sessions |-> completed_sessions,
         remaining_sessions |-> remaining_sessions,
         session_rate |-> session_rate,
         refund_amount |-> refund_amount,
         platform_fee |-> platform_fee_of(refund_amount),
         pg_fee |-> 0]

calculate_refund_estimate_code(booking_id) ==
    IF booking_id \notin BookingIds THEN "BOOKING_NOT_FOUND"
    ELSE IF find_by_booking_id(booking_id).status # "PAID" THEN "NO_PAID_PAYMENT"
    ELSE "OK"

calculate_refund_estimate(booking_id) ==
    LET code == calculate_refund_estimate_code(booking_id)
    IN  /\ last' = [Result("calculate_refund_estimate", code) EXCEPT
                        !.value = IF code = "OK"
                                  THEN refund_estimate(bookings[booking_id],
                                                       payments[booking_id])
                                  ELSE NoValue]
        /\ UNCHANGED <<now, tutors, bookings, sessions, payments, handled_months,
                       settlements, calls>>

\* ----------------------------------------------------- use_cases/refund.py
\* Port methods of the booking repository that the use case calls.
list_sessions(booking_id) == {i \in SessionIds : sessions[i].booking_id = booking_id}

find_tutor_by_id(tutor_id) == tutors[tutor_id]

max(a, b) == IF a >= b THEN a ELSE b

\* calculate_billable_no_shows forgiving one no-show under every policy.
calculate_billable_no_shows_one_free(booking, booking_sessions, no_show_policy) ==
    LET no_show_count == Cardinality({i \in booking_sessions : sessions[i].status = "NO_SHOW"})
    IN  IF no_show_policy = "NONE" THEN 0 ELSE max(0, no_show_count - 1)


calculate_billable_no_shows(booking, booking_sessions, no_show_policy) ==
    LET no_show_count == Cardinality({i \in booking_sessions : sessions[i].status = "NO_SHOW"})
        monthly_no_show_count ==
            count_no_shows_in_month(bookings, sessions, booking.tutor_id,
                                    booking.student_id, CurrentYearMonth)
    IN  IF no_show_policy = "FULL_DEDUCTION" THEN no_show_count
        ELSE IF no_show_policy = "ONE_FREE"
             THEN IF monthly_no_show_count <= 1
                  THEN max(0, no_show_count - 1)
                  ELSE no_show_count
        ELSE IF no_show_policy = "NONE" THEN 0
        ELSE no_show_count


\* calculate_refund_breakdown that takes every session not completed for a
\* remaining one.
calculate_refund_breakdown_all_remaining(booking, payment, booking_sessions, no_show_policy) ==
    LET total_paid == payment.amount
        total_sessions == booking.total_sessions
        completed_sessions == booking.completed_sessions
        no_show_count == Cardinality({i \in booking_sessions : sessions[i].status = "NO_SHOW"})
        billable_no_show_count ==
            calculate_billable_no_shows(booking, booking_sessions, no_show_policy)
        session_rate == IF total_sessions > 0 THEN total_paid \div total_sessions ELSE 0
        completed_session_cost == completed_sessions * session_rate
        no_show_cost == billable_no_show_count * session_rate
        remaining_sessions == total_sessions - completed_sessions
        non_billable_no_shows == no_show_count - billable_no_show_count
        refundable_sessions == remaining_sessions + non_billable_no_shows
        refund_amount == refundable_sessions * session_rate
    IN  [total_paid |-> total_paid,
         total_sessions |-> total_sessions,
         completed_sessions |-> completed_sessions,
         no_show_count |-> no_show_count,
         billable_no_show_count |-> billable_no_show_count,
         remaining_sessions |-> remaining_sessions,
         session_rate |-> session_rate,
         completed_session_cost |-> completed_session_cost,
         no_show_cost |-> no_show_cost,
         refundable_sessions |-> refundable_sessions,
         refund_amount |-> refund_amount,
         platform_fee_refund |-> platform_fee_of(refund_amount),
         pg_fee |-> 0,
         final_refund |-> refund_amount]

calculate_refund_breakdown(booking, payment, booking_sessions, no_show_policy) ==
    LET total_paid == payment.amount
        total_sessions == booking.total_sessions
        completed_sessions == booking.completed_sessions
        no_show_count == Cardinality({i \in booking_sessions : sessions[i].status = "NO_SHOW"})
        cancelled_count == Cardinality({i \in booking_sessions : sessions[i].status = "CANCELLED"})
        billable_no_show_count ==
            calculate_billable_no_shows(booking, booking_sessions, no_show_policy)
        session_rate == IF total_sessions > 0 THEN total_paid \div total_sessions ELSE 0
        completed_session_cost == completed_sessions * session_rate
        no_show_cost == billable_no_show_count * session_rate
        remaining_sessions ==
            total_sessions - completed_sessions - no_show_count - cancelled_count
        non_billable_no_shows == no_show_count - billable_no_show_count
        refundable_sessions == remaining_sessions + non_billable_no_shows
        refund_amount == refundable_sessions * session_rate
    IN  [total_paid |-> total_paid,
         total_sessions |-> total_sessions,
         completed_sessions |-> completed_sessions,
         no_show_count |-> no_show_count,
         billable_no_show_count |-> billable_no_show_count,
         remaining_sessions |-> remaining_sessions,
         session_rate |-> session_rate,
         completed_session_cost |-> completed_session_cost,
         no_show_cost |-> no_show_cost,
         refundable_sessions |-> refundable_sessions,
         refund_amount |-> refund_amount,
         platform_fee_refund |-> platform_fee_of(refund_amount),
         pg_fee |-> 0,
         final_refund |-> refund_amount]

\* execute_code taking a payment of any status.
execute_code_any_payment(booking_id) ==
    IF booking_id \notin BookingIds THEN "BOOKING_NOT_FOUND"
    ELSE IF find_by_booking_id(booking_id) = NoPayment THEN "PAYMENT_NOT_FOUND"
    ELSE IF bookings[booking_id].tutor_id \notin DOMAIN tutors THEN "TUTOR_NOT_FOUND"
    ELSE "OK"

execute_code(booking_id) ==
    IF booking_id \notin BookingIds THEN "BOOKING_NOT_FOUND"
    ELSE IF find_by_booking_id(booking_id) = NoPayment THEN "PAYMENT_NOT_FOUND"
    ELSE IF find_by_booking_id(booking_id).status # "PAID" THEN "PAYMENT_NOT_PAID"
    ELSE IF bookings[booking_id].tutor_id \notin DOMAIN tutors THEN "TUTOR_NOT_FOUND"
    ELSE "OK"

\* The RefundBreakdown execute returns for a booking it accepts.
execute_value(booking_id) ==
    calculate_refund_breakdown(bookings[booking_id],
                               find_by_booking_id(booking_id),
                               list_sessions(booking_id),
                               find_tutor_by_id(bookings[booking_id].tutor_id).no_show_policy)

execute(booking_id) ==
    LET code == execute_code(booking_id)
    IN  /\ last' = [Result("execute", code) EXCEPT
                        !.value = IF code = "OK" THEN execute_value(booking_id)
                                  ELSE NoValue]
        /\ UNCHANGED <<now, tutors, bookings, sessions, payments, handled_months,
                       settlements, calls>>

\* The clock advances.
Tick ==
    /\ now < NowStart + MaxTicks * TickDays * HoursPerDay
    /\ now' = now + TickDays * HoursPerDay
    /\ last' = Result("tick", "OK")
    /\ UNCHANGED <<tutors, bookings, sessions, payments, handled_months,
                   settlements, calls>>

Procs == {1, 2}

Idle == [pc |-> "idle"]

NoCalls == [p \in Procs |-> Idle]

Init ==
    /\ now = NowStart
    /\ settlements = <<>>
    /\ calls = NoCalls
    /\ \E p \in NoShowPolicy :
        tutors = [t \in {1, 2} |->
                    [is_approved |-> (t = 1), no_show_policy |-> p]]
    /\ bookings = <<>>
    /\ sessions = <<>>
    /\ payments = <<>>
    /\ handled_months = {}
    /\ last = Result("init", "OK")

BookingOps(lists) ==
    \/ \E s \in StudentIds, t \in TutorIds, sl \in lists :
        /\ Len(bookings) < MaxBookings
        /\ Len(sessions) + Len(sl) <= MaxSessions
        /\ create_booking_request(s, t, sl, None)
    \/ \E b \in 1..MaxBookings, t \in CallerIds : approve_booking(b, t)
    \/ \E b \in 1..MaxBookings, t \in CallerIds : reject_booking(b, t)
    \/ \E b \in 1..MaxBookings, u \in CallerIds, it \in BOOLEAN :
        cancel_booking(b, u, it)

AttendanceOps ==
    \/ \E i \in 1..MaxSessions, st \in AttendanceStatus :
        mark_attendance(i, st, PlaceholderUserId, None)
    \/ \E i \in 1..MaxSessions : handle_no_show(i, PlaceholderUserId, None)
    \/ auto_mark_attendance_deadline
    \/ \E i \in 1..MaxSessions, st \in SessionStatus : route_mark_attendance(i, st)
    \/ auto_attendance_job

\* A booking is paid for once: confirm_payment is called for a booking that
\* has no Payment row yet.
PaymentOps ==
    \/ \E b \in 1..MaxBookings, a \in Amounts, g \in GatewayConfirmStatuses :
        /\ find_by_booking_id(b) = NoPayment
        /\ confirm_payment(b, a, g)
    \/ \E b \in 1..MaxBookings, g \in GatewayCancelStatuses : cancel_payment(b, g)
    \/ \E b \in 1..MaxBookings, ts \in TossStatuses : handle_webhook(b, ts)

\* Bookings and attendance.
Next ==
    \/ BookingOps(SlotLists)
    \/ AttendanceOps
    \/ Tick

Spec == Init /\ [][Next]_vars

\* Bookings of one session, attendance and the payment paths.
OneSlotLists == {sl \in SlotLists : Len(sl) = 1}

NextPayment ==
    \/ BookingOps(OneSlotLists)
    \/ AttendanceOps
    \/ PaymentOps
    \/ Tick

SpecPayment == Init /\ [][NextPayment]_vars

\* ------------------------------------------------- the refund calculations
\* A paid booking of up to MaxRefundSessions sessions of the current month,
\* its sessions in every combination of statuses; completed_sessions counts
\* the COMPLETED sessions, as every marking path keeps it.
RefundSession(booking_id, i, status) ==
    [booking_id |-> booking_id,
     session_date |-> DaysPerMonth,
     session_time |-> 9 + i,
     status |-> status,
     attendance_checked_at |-> IF status = "SCHEDULED" THEN NoTime ELSE NowStart,
     attendance_checked_by |-> IF status = "SCHEDULED" THEN NoUser ELSE PlaceholderUserId,
     notes |-> None]

InitRefund ==
    /\ now = NowStart
    /\ settlements = <<>>
    /\ calls = NoCalls
    /\ \E p \in NoShowPolicy :
        tutors = [t \in {1, 2} |->
                    [is_approved |-> (t = 1), no_show_policy |-> p]]
    /\ \E n \in 1..MaxRefundSessions :
        \E st \in [1..n -> SessionStatus] :
            /\ sessions = [i \in 1..n |-> RefundSession(1, i, st[i])]
            /\ bookings = <<[student_id |-> 1,
                             tutor_id |-> 1,
                             total_sessions |-> n,
                             completed_sessions |->
                                 Cardinality({i \in 1..n : st[i] = "COMPLETED"}),
                             status |-> "APPROVED",
                             notes |-> None]>>
    /\ \/ \E a \in RefundAmounts, ps \in PaymentStatus :
              payments = <<[status |-> ps, amount |-> a]>>
       \/ payments = <<NoPayment>>
    /\ handled_months = {}
    /\ last = Result("init", "OK")

\* Time passes between two calls; no handler runs.
TimePasses ==
    /\ now < NowStart + MaxTicks * TickDays * HoursPerDay
    /\ now' = now + TickDays * HoursPerDay
    /\ UNCHANGED <<tutors, bookings, sessions, payments, handled_months, last,
                   settlements, calls>>

NextRefund ==
    \/ \E b \in 1..2 : execute(b)
    \/ \E b \in 1..2 : calculate_refund_estimate(b)
    \/ TimePasses

SpecRefund == InitRefund /\ [][NextRefund]_vars

\* ------------------------------------------------------------ settlements
MaxSettlements == 2

PlatformFeeRate == 5
PgFeeRate == 3

NoRate == 0 - 1
NoMoney == 0 - 1
NoMonth == 0 - 1

YearMonths == {1, 2}

SettlementIds == 1..Len(settlements)

\* date(year, month, 1), and the day before the first of the next month
month_start(year_month) == (year_month - 1) * DaysPerMonth + 1
month_end(year_month) == year_month * DaysPerMonth

\* A session's session_date is the datetime the booking route built: the
\* slot's day at the slot's start time.  A date bound compares as midnight.
session_datetime(session) ==
    session.session_date * HoursPerDay + session.session_time

\* The rows the revenue query joins and filters for one tutor.
revenue_sessions(tutor_id, year_month) ==
    {s \in SessionIds :
        /\ sessions[s].booking_id \in BookingIds
        /\ bookings[sessions[s].booking_id].tutor_id = tutor_id
        /\ session_datetime(sessions[s]) >= month_start(year_month) * HoursPerDay
        /\ session_datetime(sessions[s]) <= month_end(year_month) * HoursPerDay
        /\ sessions[s].status = "COMPLETED"
        /\ bookings[sessions[s].booking_id].status
               \in {"APPROVED", "IN_PROGRESS", "COMPLETED"}}

\* hourly_rate or 0
or_zero(hourly_rate) == IF hourly_rate = NoRate THEN 0 ELSE hourly_rate

\* The columns of SettlementModel are 32-bit integers.
MaxInt32 == 2147483647

\* Stands for every amount above MaxInt32; Python computes such an amount,
\* and no integer of the model holds it.
TooLarge == 0 - 2

\* hourly_rate * session_count
amount_of(hourly_rate, session_count) ==
    IF hourly_rate > MaxInt32 \div session_count THEN TooLarge
    ELSE hourly_rate * session_count

\* _calculate_tutor_revenue: tutor_id -> revenue data, for the tutors the
\* grouped query returns a row for
calculate_tutor_revenue(year_month) ==
    [t \in {u \in DOMAIN tutors : revenue_sessions(u, year_month) # {}} |->
        [total_amount |->
             amount_of(or_zero(tutors[t].hourly_rate),
                       Cardinality(revenue_sessions(t, year_month))),
         total_sessions |-> Cardinality(revenue_sessions(t, year_month))]]

\* int(total_amount * rate) for rate = rate_percent / 100.  The product is
\* an IEEE double that int() truncates; for the integer amounts of a
\* settlement it is the integer quotient (the doubles nearest 0.05 and 0.03
\* are off by less than 2^-58, too little to move a product of an amount
\* below 2^31 across an integer).
\* The quotient is computed from the hundreds and the rest of the amount,
\* which keeps every intermediate value below 2^31.
fee_amount(total_amount, rate_percent) ==
    (total_amount \div 100) * rate_percent
        + ((total_amount % 100) * rate_percent) \div 100

\* _get_existing_settlement: scalar_one_or_none() over the matching rows
existing_rows(table, tutor_id, year_month) ==
    {i \in 1..Len(table) :
        table[i].tutor_id = tutor_id /\ table[i].year_month = year_month}

get_existing_settlement(table, tutor_id, year_month) ==
    IF existing_rows(table, tutor_id, year_month) = {} THEN "NONE"
    ELSE IF Cardinality(existing_rows(table, tutor_id, year_month)) = 1 THEN "ONE"
    ELSE "MULTIPLE_RESULTS_FOUND"

\* The SettlementModel row MonthlySettlementUseCase builds.
monthly_settlement_row(tutor_id, year_month, revenue_data, t) ==
    LET total_amount == revenue_data.total_amount
        platform_fee_amount == fee_amount(total_amount, PlatformFeeRate)
        pg_fee_amount == fee_amount(total_amount, PgFeeRate)
    IN  [tutor_id |-> tutor_id,
         year_month |-> year_month,
         total_sessions |-> revenue_data.total_sessions,
         total_amount |-> total_amount,
         total_fee |-> platform_fee_amount + pg_fee_amount,
         net_amount |-> total_amount - platform_fee_amount - pg_fee_amount,
         is_paid |-> FALSE,
         paid_at |-> NoTime,
         created_at |-> t]

\* The insert of a row whose amount does not fit its column fails in
\* flush().
flush_fails(total_amount) == total_amount = TooLarge

\* The state of a batch run: the table with the run's inserts, the
\* counters, the table as the run found it, and whether a flush has failed.
\* A failed flush rolls the session's transaction back, the rows the run has
\* inserted included, and every later statement of the session raises until
\* rollback() is called, which the runs never do.
SettlementRun(table) ==
    [settlements |-> table, processed |-> 0, failed |-> 0,
     start |-> table, inactive |-> FALSE]

\* The run after a flush that failed.
flush_failed(run) ==
    [run EXCEPT !.settlements = run.start, !.failed = @ + 1, !.inactive = TRUE]

\* The iteration of the loop of calculate_monthly_settlements without its
\* existence check.
monthly_settle_one_unchecked(run, tutor_id, revenue_data, year_month, t) ==
    [run EXCEPT
        !.settlements =
            Append(@, monthly_settlement_row(tutor_id, year_month, revenue_data, t)),
        !.processed = @ + 1]

\* One iteration of the loop of calculate_monthly_settlements.
monthly_settle_one(run, tutor_id, revenue_data, year_month, t) ==
    IF run.inactive THEN [run EXCEPT !.failed = @ + 1]
    ELSE IF get_existing_settlement(run.settlements, tutor_id, year_month) = "NONE"
    THEN IF flush_fails(revenue_data.total_amount)
         THEN flush_failed(run)
         ELSE [run EXCEPT
                 !.settlements =
                     Append(@, monthly_settlement_row(tutor_id, year_month, revenue_data, t)),
                 !.processed = @ + 1]
    ELSE [run EXCEPT !.failed = @ + 1]

RECURSIVE monthly_settle_from(_, _, _, _, _)
monthly_settle_from(run, tutor_revenue, todo, year_month, t) ==
    IF todo = {} THEN run
    ELSE LET tutor_id == CHOOSE x \in todo : \A y \in todo : x <= y
         IN  monthly_settle_from(
                 monthly_settle_one(run, tutor_id, tutor_revenue[tutor_id], year_month, t),
                 tutor_revenue, todo \ {tutor_id}, year_month, t)

RunResult(op, run) ==
    [Result(op, "OK") EXCEPT
        !.value = [processed |-> run.processed, failed |-> run.failed]]

\* db.commit() at the end of calculate_monthly_settlements raises when a
\* flush of the run has failed, and the exception leaves the use case.
CommitResult(op, run) ==
    IF run.inactive THEN Result(op, "PENDING_ROLLBACK_ERROR") ELSE RunResult(op, run)

\* monthly_settlement_job catches it and returns a failed BatchJobResult.
JobResult(op, run) ==
    IF run.inactive
    THEN [Result(op, "JOB_FAILED") EXCEPT !.value = [processed |-> 0, failed |-> 0]]
    ELSE RunResult(op, run)

\* MonthlySettlementUseCase.calculate_monthly_settlements
calculate_monthly_settlements_run(year_month) ==
    monthly_settle_from(SettlementRun(settlements),
                        calculate_tutor_revenue(year_month),
                        DOMAIN calculate_tutor_revenue(year_month),
                        year_month, now)

calculate_monthly_settlements(year_month) ==
    /\ settlements' = calculate_monthly_settlements_run(year_month).settlements
    /\ last' = CommitResult("calculate_monthly_settlements",
                            calculate_monthly_settlements_run(year_month))
    /\ UNCHANGED <<now, tutors, bookings, sessions, payments, handled_months, calls>>

\* monthly_settlement_job: the target month defaults to the month before
\* date.today()
target_month(year_month) ==
    IF year_month = NoMonth THEN CurrentYearMonth - 1 ELSE year_month

monthly_settlement_job(year_month) ==
    /\ settlements' =
           calculate_monthly_settlements_run(target_month(year_month)).settlements
    /\ last' = JobResult("monthly_settlement_job",
                         calculate_monthly_settlements_run(target_month(year_month)))
    /\ UNCHANGED <<now, tutors, bookings, sessions, payments, handled_months, calls>>

\* SettlementRepository._to_entity: a zero column becomes a missing Money,
\* the stored fee becomes platform_fee, and pg_fee is Money(0).
to_entity(id, db_settlement) ==
    [id |-> id,
     tutor_id |-> db_settlement.tutor_id,
     year_month |-> db_settlement.year_month,
     total_sessions |-> db_settlement.total_sessions,
     total_amount |-> IF db_settlement.total_amount # 0
                      THEN db_settlement.total_amount ELSE NoMoney,
     platform_fee |-> IF db_settlement.total_fee # 0
                      THEN db_settlement.total_fee ELSE NoMoney,
     pg_fee |-> 0,
     net_amount |-> IF db_settlement.net_amount # 0
                    THEN db_settlement.net_amount ELSE NoMoney,
     is_paid |-> db_settlement.is_paid,
     paid_at |-> db_settlement.paid_at,
     created_at |-> db_settlement.created_at]

\* money.amount_krw if money else 0
amount_or_zero(money) == IF money = NoMoney THEN 0 ELSE money

NoId == 0

\* SettlementRepository.save, the branch for an entity without id
save_new(table, settlement, t) ==
    Append(table,
        [tutor_id |-> settlement.tutor_id,
         year_month |-> settlement.year_month,
         total_sessions |-> settlement.total_sessions,
         total_amount |-> amount_or_zero(settlement.total_amount),
         total_fee |-> amount_or_zero(settlement.platform_fee),
         net_amount |-> amount_or_zero(settlement.net_amount),
         is_paid |-> settlement.is_paid,
         paid_at |-> settlement.paid_at,
         created_at |-> t])

\* save_existing writing the pg_fee of the entity into the fee column.
save_existing_pg_fee(table, settlement) ==
    IF settlement.id \in 1..Len(table)
    THEN [table EXCEPT ![settlement.id] =
            [@ EXCEPT
                !.total_sessions = settlement.total_sessions,
                !.total_amount = amount_or_zero(settlement.total_amount),
                !.total_fee = amount_or_zero(settlement.pg_fee),
                !.net_amount = amount_or_zero(settlement.net_amount),
                !.is_paid = settlement.is_paid,
                !.paid_at = settlement.paid_at]]
    ELSE table

\* SettlementRepository.save, the branch for an entity with an id
save_existing(table, settlement) ==
    IF settlement.id \in 1..Len(table)
    THEN [table EXCEPT ![settlement.id] =
            [@ EXCEPT
                !.total_sessions = settlement.total_sessions,
                !.total_amount = amount_or_zero(settlement.total_amount),
                !.total_fee = amount_or_zero(settlement.platform_fee),
                !.net_amount = amount_or_zero(settlement.net_amount),
                !.is_paid = settlement.is_paid,
                !.paid_at = settlement.paid_at]]
    ELSE table

\* The Settlement entity CalculateSettlementUseCase builds.
calculated_settlement(tutor_id, year_month, revenue_data) ==
    LET total_amount == revenue_data.total_amount
        platform_fee_amount == fee_amount(total_amount, PlatformFeeRate)
        pg_fee_amount == fee_amount(total_amount, PgFeeRate)
    IN  [id |-> NoId,
         tutor_id |-> tutor_id,
         year_month |-> year_month,
         total_sessions |-> revenue_data.total_sessions,
         total_amount |-> total_amount,
         platform_fee |-> platform_fee_amount,
         pg_fee |-> pg_fee_amount,
         net_amount |-> total_amount - platform_fee_amount - pg_fee_amount,
         is_paid |-> FALSE,
         paid_at |-> NoTime,
         created_at |-> NoTime]

\* CalculateSettlementUseCase.calculate_monthly_settlement
calculate_monthly_settlement_code(tutor_id, year_month) ==
    IF tutor_id \notin DOMAIN calculate_tutor_revenue(year_month)
    THEN "VALUE_ERROR"
    ELSE IF flush_fails(calculate_tutor_revenue(year_month)[tutor_id].total_amount)
    THEN "DATA_ERROR"
    ELSE "OK"

calculate_monthly_settlement_table(table, tutor_id, year_month, t) ==
    save_new(table,
             calculated_settlement(tutor_id, year_month,
                                   calculate_tutor_revenue(year_month)[tutor_id]),
             t)

calculate_monthly_settlement(tutor_id, year_month) ==
    /\ IF calculate_monthly_settlement_code(tutor_id, year_month) = "OK"
       THEN /\ settlements' =
                   calculate_monthly_settlement_table(settlements, tutor_id, year_month, now)
            /\ last' = [Result("calculate_monthly_settlement", "OK") EXCEPT
                           !.value = to_entity(Len(settlements'),
                                               settlements'[Len(settlements')])]
       ELSE /\ UNCHANGED settlements
            /\ last' = Result("calculate_monthly_settlement",
                              calculate_monthly_settlement_code(tutor_id, year_month))
    /\ UNCHANGED <<now, tutors, bookings, sessions, payments, handled_months, calls>>

\* One iteration of the loop of calculate_all_tutors_settlement.
all_tutors_settle_one(run, tutor_id, year_month, t) ==
    IF run.inactive THEN [run EXCEPT !.failed = @ + 1]
    ELSE IF get_existing_settlement(run.settlements, tutor_id, year_month) = "NONE"
    THEN IF calculate_monthly_settlement_code(tutor_id, year_month) = "OK"
         THEN [run EXCEPT
                 !.settlements =
                     calculate_monthly_settlement_table(@, tutor_id, year_month, t),
                 !.processed = @ + 1]
         ELSE IF calculate_monthly_settlement_code(tutor_id, year_month) = "DATA_ERROR"
         THEN flush_failed(run)
         ELSE [run EXCEPT !.failed = @ + 1]
    ELSE [run EXCEPT !.failed = @ + 1]

RECURSIVE all_tutors_settle_from(_, _, _, _)
all_tutors_settle_from(run, todo, year_month, t) ==
    IF todo = {} THEN run
    ELSE LET tutor_id == CHOOSE x \in todo : \A y \in todo : x <= y
         IN  all_tutors_settle_from(
                 all_tutors_settle_one(run, tutor_id, year_month, t),
                 todo \ {tutor_id}, year_month, t)

\* CalculateSettlementUseCase.calculate_all_tutors_settlement
calculate_all_tutors_settlement_run(year_month) ==
    all_tutors_settle_from(SettlementRun(settlements),
                           DOMAIN calculate_tutor_revenue(year_month),
                           year_month, now)

calculate_all_tutors_settlement(year_month) ==
    /\ settlements' = calculate_all_tutors_settlement_run(year_month).settlements
    /\ last' = RunResult("calculate_all_tutors_settlement",
                         calculate_all_tutors_settlement_run(year_month))
    /\ UNCHANGED <<now, tutors, bookings, sessions, payments, handled_months, calls>>

\* Settlement.calculate_net_amount; Money.subtract raises below zero
calculate_net_amount(settlement) ==
    IF /\ settlement.total_amount # NoMoney
       /\ settlement.platform_fee # NoMoney
       /\ settlement.pg_fee # NoMoney
    THEN [settlement EXCEPT
            !.net_amount = settlement.total_amount - settlement.platform_fee
                               - settlement.pg_fee]
    ELSE settlement

\* SettlementRepository.create_settlement
create_settlement_code(total_amount, platform_fee, pg_fee) ==
    IF total_amount - platform_fee - pg_fee < 0 THEN "VALUE_ERROR" ELSE "OK"

create_settlement(tutor_id, year_month, total_sessions, total_amount, platform_fee, pg_fee) ==
    /\ IF create_settlement_code(total_amount, platform_fee, pg_fee) = "OK"
       THEN /\ settlements' =
                   save_new(settlements,
                            calculate_net_amount(
                                [id |-> NoId,
                                 tutor_id |-> tutor_id,
                                 year_month |-> year_month,
                                 total_sessions |-> total_sessions,
                                 total_amount |-> total_amount,
                                 platform_fee |-> platform_fee,
                                 pg_fee |-> pg_fee,
                                 net_amount |-> NoMoney,
                                 is_paid |-> FALSE,
                                 paid_at |-> NoTime,
                                 created_at |-> NoTime]),
                            now)
            /\ last' = [Result("create_settlement", "OK") EXCEPT
                           !.value = to_entity(Len(settlements'),
                                               settlements'[Len(settlements')])]
       ELSE /\ UNCHANGED settlements
            /\ last' = Result("create_settlement", "VALUE_ERROR")
    /\ UNCHANGED <<now, tutors, bookings, sessions, payments, handled_months, calls>>

\* Settlement.mark_as_paid: paid_at or utcnow()
entity_mark_as_paid(settlement, paid_at, t) ==
    [settlement EXCEPT
        !.is_paid = TRUE,
        !.paid_at = IF paid_at = NoTime THEN t ELSE paid_at]

\* SettlementRepository.mark_as_paid
mark_as_paid_code(settlement_id) ==
    IF settlement_id \in SettlementIds THEN "OK" ELSE "NOT_FOUND"

mark_as_paid(settlement_id, paid_at) ==
    /\ IF mark_as_paid_code(settlement_id) = "OK"
       THEN /\ settlements' =
                   save_existing(settlements,
                       entity_mark_as_paid(
                           to_entity(settlement_id, settlements[settlement_id]),
                           paid_at, now))
            /\ last' = [Result("mark_as_paid", "OK") EXCEPT
                           !.value = to_entity(settlement_id,
                                               settlements'[settlement_id])]
       ELSE /\ UNCHANGED settlements
            /\ last' = Result("mark_as_paid", "NOT_FOUND")
    /\ UNCHANGED <<now, tutors, bookings, sessions, payments, handled_months, calls>>

\* PaymentDisbursementUseCase.disburse_payments
pending_settlements(year_month) ==
    {i \in SettlementIds :
        /\ ~settlements[i].is_paid
        /\ year_month # NoMonth => settlements[i].year_month = year_month}

disburse_payments_table(year_month) ==
    [i \in SettlementIds |->
        IF i \in pending_settlements(year_month)
        THEN [settlements[i] EXCEPT !.is_paid = TRUE, !.paid_at = now]
        ELSE settlements[i]]

disburse_payments(year_month) ==
    /\ settlements' = disburse_payments_table(year_month)
    /\ last' = [Result("disburse_payments", "OK") EXCEPT
                   !.value = [processed |-> Cardinality(pending_settlements(year_month)),
                              failed |-> 0]]
    /\ UNCHANGED <<now, tutors, bookings, sessions, payments, handled_months, calls>>

\* payment_disbursement_job
payment_disbursement_job(year_month) ==
    /\ settlements' = disburse_payments_table(year_month)
    /\ last' = [Result("payment_disbursement_job", "OK") EXCEPT
                   !.value = [processed |-> Cardinality(pending_settlements(year_month)),
                              failed |-> 0]]
    /\ UNCHANGED <<now, tutors, bookings, sessions, payments, handled_months, calls>>

\* ------------------------------------------------- the settlement database
\* Two tutors with one booking each; tutor 1 has sessions late in month 1,
\* on its last day and on the first day of month 2, tutor 2 one session in
\* month 1.  The clock stands in month 2.
SettlementNow == NowStart + TickDays * HoursPerDay

HourlyRates == {30, NoRate}

SettlementSession(booking_id, day, status) ==
    [booking_id |-> booking_id,
     session_date |-> day,
     session_time |-> 9,
     status |-> status,
     attendance_checked_at |-> IF status = "SCHEDULED" THEN NoTime ELSE NowStart,
     attendance_checked_by |-> IF status = "SCHEDULED" THEN NoUser ELSE PlaceholderUserId,
     notes |-> None]

SettlementBooking(tutor_id, total_sessions, completed_sessions, status) ==
    [student_id |-> 1,
     tutor_id |-> tutor_id,
     total_sessions |-> total_sessions,
     completed_sessions |-> completed_sessions,
     status |-> status,
     notes |-> None]

InitSettlement ==
    /\ now = SettlementNow
    /\ \E r \in HourlyRates :
        tutors = [t \in {1, 2} |->
                    [is_approved |-> TRUE,
                     no_show_policy |-> "FULL_DEDUCTION",
                     hourly_rate |-> IF t = 1 THEN 40000 ELSE r]]
    /\ \E st \in {"COMPLETED", "NO_SHOW"}, bs \in {"COMPLETED", "CANCELLED"} :
        /\ sessions = <<SettlementSession(1, DaysPerMonth - 1, st),
                        SettlementSession(1, DaysPerMonth, "COMPLETED"),
                        SettlementSession(1, DaysPerMonth + 1, "COMPLETED"),
                        SettlementSession(2, DaysPerMonth - 1, "COMPLETED")>>
        /\ bookings = <<SettlementBooking(1, 3,
                            IF st = "COMPLETED" THEN 3 ELSE 2, "IN_PROGRESS"),
                        SettlementBooking(2, 1, 1, bs)>>
    /\ payments = <<NoPayment, NoPayment>>
    /\ handled_months = {}
    /\ settlements = <<>>
    /\ calls = NoCalls
    /\ last = Result("init", "OK")

\* The table stays within its bound.
WithinMaxSettlements == Len(settlements') <= MaxSettlements

\* The operations that create settlements, run one at a time.
SettlementOps ==
    \/ \E ym \in YearMonths :
        calculate_monthly_settlements(ym) /\ WithinMaxSettlements
    \/ \E ym \in {2, NoMonth} :
        monthly_settlement_job(ym) /\ WithinMaxSettlements
    \/ \E ym \in YearMonths :
        calculate_all_tutors_settlement(ym) /\ WithinMaxSettlements
    \/ \E t \in TutorIds, ym \in YearMonths :
        calculate_monthly_settlement(t, ym) /\ WithinMaxSettlements
    \/ \E t \in {2}, ym \in {1} :
        create_settlement(t, ym, 1, 30, 1, 0) /\ WithinMaxSettlements

\* The operations that pay settlements out.
DisbursementOps ==
    \/ \E id \in 1..MaxSettlements, paid_at \in {NoTime, NowStart} :
        mark_as_paid(id, paid_at)
    \/ \E ym \in {1, NoMonth} : disburse_payments(ym)
    \/ \E ym \in {NoMonth} : payment_disbursement_job(ym)

NextSettlement ==
    \/ SettlementOps
    \/ DisbursementOps

SpecSettlement == InitSettlement /\ [][NextSettlement]_vars

\* ------------------------------------- monthly settlement runs, step by step
\* calculate_monthly_settlements as the steps it takes between two awaits,
\* each run in a database session of its own: a run reads the committed rows
\* and the rows it has flushed itself; its rows reach the table at commit.
MaxRunRows == 4

\* The rows a run in progress may still add.
run_rows(p) ==
    IF calls[p].pc = "idle" THEN 0
    ELSE Len(calls[p].pending) + Cardinality(calls[p].todo)

next_pc(todo) == IF todo = {} THEN "commit" ELSE "check"

next_tutor(todo) == CHOOSE x \in todo : \A y \in todo : x <= y

\* the revenue query, lines 36 to 51
run_begin(p, year_month) ==
    /\ calls[p].pc = "idle"
    /\ calls' = [calls EXCEPT ![p] =
                    [pc |-> next_pc(DOMAIN calculate_tutor_revenue(year_month)),
                     year_month |-> year_month,
                     tutor_revenue |-> calculate_tutor_revenue(year_month),
                     todo |-> DOMAIN calculate_tutor_revenue(year_month),
                     pending |-> <<>>,
                     processed |-> 0,
                     failed |-> 0]]
    /\ UNCHANGED <<now, tutors, bookings, sessions, payments, handled_months,
                   last, settlements>>

\* the existence check of the next tutor, lines 55 to 62
run_check(p) ==
    /\ calls[p].pc = "check"
    /\ IF get_existing_settlement(settlements \o calls[p].pending,
                                  next_tutor(calls[p].todo),
                                  calls[p].year_month) = "NONE"
       THEN calls' = [calls EXCEPT ![p].pc = "insert"]
       ELSE calls' = [calls EXCEPT
                        ![p].failed = @ + 1,
                        ![p].todo = @ \ {next_tutor(calls[p].todo)},
                        ![p].pc = next_pc(calls[p].todo \ {next_tutor(calls[p].todo)})]
    /\ UNCHANGED <<now, tutors, bookings, sessions, payments, handled_months,
                   last, settlements>>

\* the insert and flush of the tutor's row, lines 64 to 89
run_insert(p) ==
    /\ calls[p].pc = "insert"
    /\ calls' = [calls EXCEPT
                    ![p].pending =
                        Append(@, monthly_settlement_row(
                                      next_tutor(calls[p].todo),
                                      calls[p].year_month,
                                      calls[p].tutor_revenue[next_tutor(calls[p].todo)],
                                      now)),
                    ![p].processed = @ + 1,
                    ![p].todo = @ \ {next_tutor(calls[p].todo)},
                    ![p].pc = next_pc(calls[p].todo \ {next_tutor(calls[p].todo)})]
    /\ UNCHANGED <<now, tutors, bookings, sessions, payments, handled_months,
                   last, settlements>>

\* the commit and the return, lines 95 to 102
run_commit(p) ==
    /\ calls[p].pc = "commit"
    /\ settlements' = settlements \o calls[p].pending
    /\ last' = RunResult("calculate_monthly_settlements", calls[p])
    /\ calls' = [calls EXCEPT ![p] = Idle]
    /\ UNCHANGED <<now, tutors, bookings, sessions, payments, handled_months>>

NextSettlementRuns ==
    \/ \E p \in Procs, ym \in YearMonths :
        /\ Len(settlements) + run_rows(1) + run_rows(2)
               + Cardinality(DOMAIN calculate_tutor_revenue(ym)) <= MaxRunRows
        /\ run_begin(p, ym)
    \/ \E p \in Procs : run_check(p)
    \/ \E p \in Procs : run_insert(p)
    \/ \E p \in Procs : run_commit(p)

SpecSettlementRuns == InitSettlement /\ [][NextSettlementRuns]_vars

\* --------------------------------------- booking requests, step by step
\* create_booking_request as the steps it takes between two awaits: the
\* validations up to the conflict query, then the inserts.
MaxRaceBookings == 2

\* lines 44 to 82: tutor lookup, is_future, find_conflicting_slots
request_check(p, student_id, tutor_id, slots, notes) ==
    /\ calls[p].pc = "idle"
    /\ IF create_booking_request_code(student_id, tutor_id, slots) = "OK"
       THEN /\ calls' = [calls EXCEPT ![p] =
                           [pc |-> "insert",
                            student_id |-> student_id,
                            tutor_id |-> tutor_id,
                            slots |-> slots,
                            notes |-> notes]]
            /\ UNCHANGED last
       ELSE /\ UNCHANGED calls
            /\ last' = Result("create_booking_request",
                              create_booking_request_code(student_id, tutor_id, slots))
    /\ UNCHANGED <<now, tutors, bookings, sessions, payments, handled_months,
                   settlements>>

\* lines 84 to 99: booking_repo.save and create_sessions
request_insert(p) ==
    /\ calls[p].pc = "insert"
    /\ bookings' = Append(bookings,
           [student_id |-> calls[p].student_id,
            tutor_id |-> calls[p].tutor_id,
            total_sessions |-> Len(calls[p].slots),
            completed_sessions |-> 0,
            status |-> "PENDING",
            notes |-> calls[p].notes])
    /\ sessions' = sessions \o create_sessions(Len(bookings) + 1, calls[p].slots)
    /\ payments' = Append(payments, NoPayment)
    /\ last' = Result("create_booking_request", "OK")
    /\ calls' = [calls EXCEPT ![p] = Idle]
    /\ UNCHANGED <<now, tutors, handled_months, settlements>>

\* The requests in progress that have passed their checks.
requests_inserting == Cardinality({p \in Procs : calls[p].pc = "insert"})

NextBookingRace ==
    \/ \E s \in StudentIds, t \in TutorIds, sl \in SlotLists :
        /\ calls = NoCalls
        /\ Len(bookings) < MaxRaceBookings
        /\ create_booking_request(s, t, sl, None)
    \/ \E p \in Procs, s \in StudentIds, t \in TutorIds, sl \in SlotLists :
        /\ Len(bookings) + requests_inserting < MaxRaceBookings
        /\ request_check(p, s, t, sl, None)
    \/ \E p \in Procs : request_insert(p)
    \/ \E b \in 1..MaxRaceBookings, t \in CallerIds :
        /\ approve_booking(b, t)

SpecBookingRace == Init /\ [][NextBookingRace]_vars

\* ------------------------------------------------ find_schedule_conflicts
MaxNewSlots == 2

\* The slot requests of the booking route: a day, a start and an end hour
\* with start before end (TimeRange refuses the others).
SlotRequests ==
    {[date |-> d, start_time |-> r[1], end_time |-> r[2]] :
        d \in SlotDays, r \in {<<9, 10>>, <<9, 11>>, <<10, 11>>, <<10, 12>>}}

\* datetime.combine(date, start_time)
combine(day, time) == day * HoursPerDay + time

\* _parse_schedule_slots: ScheduleSlot.date is the day combined with the
\* start time
parse_slot(req) ==
    [date |-> combine(req.date, req.start_time),
     time_range |-> TimeRange(req.start_time, req.end_time)]

parse_schedule_slots(requests) ==
    [i \in 1..Len(requests) |-> parse_slot(requests[i])]

find_schedule_conflicts(existing_slots, new_slots) ==
    SelectSeq(new_slots,
        LAMBDA new_slot :
            \E i \in 1..Len(existing_slots) :
                /\ new_slot.date = existing_slots[i].date
                /\ overlaps(new_slot.time_range, existing_slots[i].time_range))

\* A pending call of find_schedule_conflicts on slots the route parsed.
InitConflicts ==
    /\ now = NowStart
    /\ tutors = [t \in {1, 2} |->
                    [is_approved |-> (t = 1), no_show_policy |-> "FULL_DEDUCTION"]]
    /\ bookings = <<>>
    /\ sessions = <<>>
    /\ payments = <<>>
    /\ handled_months = {}
    /\ settlements = <<>>
    /\ last = Result("init", "OK")
    /\ \E e \in SlotRequests, n \in 1..MaxNewSlots :
        \E new \in [1..n -> SlotRequests] :
            calls = [p \in Procs |->
                        IF p = 1
                        THEN [pc |-> "call",
                              existing_slots |-> parse_schedule_slots(<<e>>),
                              new_slots |-> parse_schedule_slots(new)]
                        ELSE Idle]

call_find_schedule_conflicts(p) ==
    /\ calls[p].pc = "call"
    /\ last' = [Result("find_schedule_conflicts", "OK") EXCEPT
                   !.value = find_schedule_conflicts(calls[p].existing_slots,
                                                     calls[p].new_slots)]
    /\ calls' = [calls EXCEPT ![p].pc = "returned"]
    /\ UNCHANGED <<now, tutors, bookings, sessions, payments, handled_months,
                   settlements>>

NextConflicts == \E p \in Procs : call_find_schedule_conflicts(p)

SpecConflicts == InitConflicts /\ [][NextConflicts]_vars

\* ------------------------------------------ attendance marks, step by step
\* Two requests mark attendance at the same time, each in its own database
\* session.  A request reads, then writes and commits; what it writes is
\* seen by the other request from its commit on.

\* attendance.py lines 60 to 80: the session and its booking are read and
\* the status guard is passed
mark_attendance_read(p, session_id, status, checked_by_id, notes) ==
    /\ calls[p].pc = "idle"
    /\ IF mark_attendance_code(sessions, session_id) = "OK"
       THEN /\ calls' = [calls EXCEPT ![p] =
                           [pc |-> "mark_attendance_write",
                            session_id |-> session_id,
                            status |-> status,
                            checked_by_id |-> checked_by_id,
                            notes |-> notes,
                            session |-> find_session_by_id(sessions, session_id),
                            booking |-> bookings[sessions[session_id].booking_id]]]
            /\ UNCHANGED last
       ELSE /\ UNCHANGED calls
            /\ last' = Result("mark_attendance", mark_attendance_code(sessions, session_id))
    /\ UNCHANGED <<now, tutors, bookings, sessions, payments, handled_months,
                   settlements>>

\* attendance.py lines 82 to 109: the entities read are changed and written
\* back, update_session for the session and save for the booking
mark_attendance_write(p) ==
    /\ calls[p].pc = "mark_attendance_write"
    /\ LET frame == calls[p]
           booking_id == frame.session.booking_id
           read == [bookings |-> [bookings EXCEPT ![booking_id] = frame.booking],
                    sessions |-> [sessions EXCEPT ![frame.session_id] = frame.session]]
           out == mark_attendance_db(read, frame.session_id, frame.status,
                                     frame.checked_by_id, frame.notes, now)
       IN  /\ sessions' = update_session(sessions, frame.session_id,
                                         out.sessions[frame.session_id])
           /\ bookings' = save(bookings, booking_id, out.bookings[booking_id])
    /\ last' = Result("mark_attendance", "OK")
    /\ calls' = [calls EXCEPT ![p] = Idle]
    /\ UNCHANGED <<now, tutors, payments, handled_months, settlements>>

\* routes/attendance.py lines 98 to 128: the status is validated, the
\* session read and found SCHEDULED
route_mark_attendance_read(p, session_id, status) ==
    /\ calls[p].pc = "idle"
    /\ IF route_mark_attendance_code(session_id, status) = "OK"
       THEN /\ calls' = [calls EXCEPT ![p] =
                           [pc |-> "route_update",
                            session_id |-> session_id,
                            status |-> status,
                            old_status |-> sessions[session_id].status]]
            /\ UNCHANGED last
       ELSE /\ UNCHANGED calls
            /\ last' = Result("route_mark_attendance",
                              route_mark_attendance_code(session_id, status))
    /\ UNCHANGED <<now, tutors, bookings, sessions, payments, handled_months,
                   settlements>>

\* update_session_attendance lines 201 to 214 and 229 to 231, with lines 283
\* to 289 of _increment_completed_sessions: the session row is updated, which
\* waits for a request that holds an uncommitted update of the same row, and
\* the booking's counter is read.  The session object is the one the route
\* loaded, so old_status is the status read then.
route_update(p) ==
    /\ calls[p].pc = "route_update"
    /\ \A q \in Procs \ {p} :
        ~(calls[q].pc = "route_commit" /\ calls[q].session_id = calls[p].session_id)
    /\ LET booking_id == sessions[calls[p].session_id].booking_id
       IN  calls' = [calls EXCEPT ![p] =
                       [pc |-> "route_commit",
                        session_id |-> calls[p].session_id,
                        status |-> calls[p].status,
                        booking_id |-> booking_id,
                        increments |-> (calls[p].status = "COMPLETED"
                                          /\ calls[p].old_status # "COMPLETED"),
                        old_count |-> bookings[booking_id].completed_sessions]]
    /\ UNCHANGED <<now, tutors, bookings, sessions, payments, handled_months, last,
                   settlements>>

\* lines 290 and 291 and the end of the request: the counter read, plus one,
\* is written and both updates become visible
route_commit(p) ==
    /\ calls[p].pc = "route_commit"
    /\ sessions' = [sessions EXCEPT
                       ![calls[p].session_id].status = calls[p].status,
                       ![calls[p].session_id].attendance_checked_at = now,
                       ![calls[p].session_id].attendance_checked_by = PlaceholderUserId]
    /\ bookings' = IF calls[p].increments
                   THEN [bookings EXCEPT
                            ![calls[p].booking_id].completed_sessions =
                                calls[p].old_count + 1]
                   ELSE bookings
    /\ last' = Result("route_mark_attendance", "OK")
    /\ calls' = [calls EXCEPT ![p] = Idle]
    /\ UNCHANGED <<now, tutors, payments, handled_months, settlements>>

\* Two approved bookings of the tutor, one of two sessions and one of one
\* session, none marked yet.
MaxRaceSessions == 3

InitAttendanceRace ==
    /\ now = NowStart + TickDays * HoursPerDay
    /\ settlements = <<>>
    /\ calls = NoCalls
    /\ \E p \in NoShowPolicy :
        tutors = [t \in {1, 2} |->
                    [is_approved |-> (t = 1), no_show_policy |-> p]]
    /\ bookings = <<[student_id |-> 1,
                     tutor_id |-> 1,
                     total_sessions |-> 2,
                     completed_sessions |-> 0,
                     status |-> "APPROVED",
                     notes |-> None],
                    [student_id |-> 1,
                     tutor_id |-> 1,
                     total_sessions |-> 1,
                     completed_sessions |-> 0,
                     status |-> "APPROVED",
                     notes |-> None]>>
    /\ sessions = create_sessions(1, <<ScheduleSlot(DaysPerMonth, 9, 9 + SessionHours),
                                       ScheduleSlot(DaysPerMonth + 1, 9, 9 + SessionHours)>>)
                    \o create_sessions(2, <<ScheduleSlot(DaysPerMonth, 10, 10 + SessionHours)>>)
    /\ payments = <<NoPayment, NoPayment>>
    /\ handled_months = {}
    /\ last = Result("init", "OK")

NextAttendanceRace ==
    \/ \E p \in Procs, i \in 1..MaxRaceSessions :
        mark_attendance_read(p, i, "ATTENDED", PlaceholderUserId, None)
    \/ \E p \in Procs : mark_attendance_write(p)
    \/ \E p \in Procs, i \in 1..MaxRaceSessions :
        route_mark_attendance_read(p, i, "COMPLETED")
    \/ \E p \in Procs : route_update(p)
    \/ \E p \in Procs : route_commit(p)

SpecAttendanceRace == InitAttendanceRace /\ [][NextAttendanceRace]_vars

\* The same two bookings, marked by one request at a time.
NextAttendance ==
    \/ \E i \in 1..MaxRaceSessions, st \in AttendanceStatus :
        mark_attendance(i, st, PlaceholderUserId, None)
    \/ \E i \in 1..MaxRaceSessions : handle_no_show(i, PlaceholderUserId, None)
    \/ \E i \in 1..MaxRaceSessions, st \in SessionStatus : route_mark_attendance(i, st)

SpecAttendance == InitAttendanceRace /\ [][NextAttendance]_vars

\* ------------------------------------------- bookings of one tutor, by hour
\* The booking use cases called in any order on up to MaxRaceBookings
\* bookings, while the clock advances hour by hour past the 24 hour lead of
\* the first slots.
MaxHours == 2

\* The bookings' student has an id that is not their tutor's; a third
\* caller is neither.
BookingStudents == {2}
BookingCallers == {1, 2, 3}

HourPasses ==
    /\ now < NowStart + MaxHours
    /\ now' = now + 1
    /\ last' = Result("tick", "OK")
    /\ UNCHANGED <<tutors, bookings, sessions, payments, handled_months,
                   settlements, calls>>

NextBookings ==
    \/ \E s \in BookingStudents, t \in TutorIds, sl \in SlotLists :
        /\ Len(bookings) < MaxRaceBookings
        /\ create_booking_request(s, t, sl, None)
    \/ \E b \in 1..MaxRaceBookings, t \in BookingCallers : approve_booking(b, t)
    \/ \E b \in 1..MaxRaceBookings, t \in BookingCallers : reject_booking(b, t)
    \/ \E b \in 1..MaxRaceBookings, u \in BookingCallers, it \in BOOLEAN :
        cancel_booking(b, u, it)
    \/ HourPasses

SpecBookings == Init /\ [][NextBookings]_vars

\* ------------------------------------------ settlement runs, a failing insert
\* Two tutors with a booking of two sessions each in month 1, the second
\* session attended or not.  A tutor's hourly rate is small or the largest
\* the column holds; at that rate the revenue of two sessions does not fit
\* the settlement's amount column.
MaxFailureRows == 3

InitSettlementFailure ==
    /\ now = SettlementNow
    /\ \E r \in [{1, 2} -> {30, MaxInt32}] :
        tutors = [t \in {1, 2} |->
                    [is_approved |-> TRUE,
                     no_show_policy |-> "FULL_DEDUCTION",
                     hourly_rate |-> r[t]]]
    /\ \E st \in [{1, 2} -> {"COMPLETED", "NO_SHOW"}] :
        /\ sessions = <<SettlementSession(1, DaysPerMonth - 2, "COMPLETED"),
                        SettlementSession(1, DaysPerMonth - 1, st[1]),
                        SettlementSession(2, DaysPerMonth - 2, "COMPLETED"),
                        SettlementSession(2, DaysPerMonth - 1, st[2])>>
        /\ bookings = <<SettlementBooking(1, 2,
                            IF st[1] = "COMPLETED" THEN 2 ELSE 1, "IN_PROGRESS"),
                        SettlementBooking(2, 2,
                            IF st[2] = "COMPLETED" THEN 2 ELSE 1, "IN_PROGRESS")>>
    /\ payments = <<NoPayment, NoPayment>>
    /\ handled_months = {}
    /\ settlements = <<>>
    /\ calls = NoCalls
    /\ last = Result("init", "OK")

WithinMaxFailureRows == Len(settlements') <= MaxFailureRows

NextSettlementFailure ==
    \/ \E ym \in YearMonths :
        calculate_monthly_settlements(ym) /\ WithinMaxFailureRows
    \/ \E ym \in {NoMonth} :
        monthly_settlement_job(ym) /\ WithinMaxFailureRows
    \/ \E ym \in YearMonths :
        calculate_all_tutors_settlement(ym) /\ WithinMaxFailureRows
    \/ \E t \in {1, 2}, ym \in YearMonths :
        calculate_monthly_settlement(t, ym) /\ WithinMaxFailureRows

SpecSettlementFailure == InitSettlementFailure /\ [][NextSettlementFailure]_vars

\* ------------------------------------------ no-show handling, step by step
\* Two requests call handle_no_show at the same time.  A request counts the
\* month's no-shows and decides, then marks its session; nothing locks the
\* pair's rows between the two.

\* attendance.py lines 133 to 161: session, booking and tutor are read, the
\* month's NO_SHOW sessions of the pair are counted and is_billable is decided
handle_no_show_count(p, session_id, checked_by_id, notes) ==
    /\ calls[p].pc = "idle"
    /\ IF handle_no_show_code(session_id) \in {"SESSION_NOT_FOUND", "TUTOR_NOT_FOUND"}
       THEN /\ UNCHANGED calls
            /\ last' = Result("handle_no_show", handle_no_show_code(session_id))
       ELSE /\ calls' = [calls EXCEPT ![p] =
                           [pc |-> "handle_no_show_mark",
                            session_id |-> session_id,
                            checked_by_id |-> checked_by_id,
                            notes |-> notes,
                            is_billable |-> handle_no_show_billable(session_id)]]
            /\ UNCHANGED last
    /\ UNCHANGED <<now, tutors, bookings, sessions, payments, handled_months,
                   settlements>>

\* attendance.py lines 163 to 171: mark_attendance marks the session NO_SHOW
\* and the pair (session, is_billable) is returned; the frame keeps what the
\* call returned.  When mark_attendance raises, nothing is returned.
handle_no_show_mark(p) ==
    /\ calls[p].pc = "handle_no_show_mark"
    /\ LET frame == calls[p]
           code == mark_attendance_code(sessions, frame.session_id)
           db == [bookings |-> bookings, sessions |-> sessions]
           out == mark_attendance_db(db, frame.session_id, "NO_SHOW",
                                     frame.checked_by_id, frame.notes, now)
       IN  /\ bookings' = out.bookings
           /\ sessions' = out.sessions
           /\ last' = [Result("handle_no_show", code) EXCEPT
                           !.is_billable = (code = "OK" /\ frame.is_billable)]
           /\ calls' = [calls EXCEPT ![p] =
                           IF code = "OK"
                           THEN [pc |-> "returned",
                                 session_id |-> frame.session_id,
                                 is_billable |-> frame.is_billable]
                           ELSE Idle]
           /\ handled_months' =
                   IF code = "OK"
                      /\ MonthOf(sessions[frame.session_id].session_date) = CurrentYearMonth
                   THEN handled_months \cup {CurrentYearMonth}
                   ELSE handled_months
    /\ UNCHANGED <<now, tutors, payments, settlements>>

\* Two approved bookings of tutor 1 and student 1 whose three sessions lie in
\* the current month, none marked yet.
InitNoShowRace ==
    /\ now = NowStart
    /\ settlements = <<>>
    /\ calls = NoCalls
    /\ \E p \in NoShowPolicy :
        tutors = [t \in {1, 2} |->
                    [is_approved |-> (t = 1), no_show_policy |-> p]]
    /\ bookings = <<[student_id |-> 1,
                     tutor_id |-> 1,
                     total_sessions |-> 2,
                     completed_sessions |-> 0,
                     status |-> "APPROVED",
                     notes |-> None],
                    [student_id |-> 1,
                     tutor_id |-> 1,
                     total_sessions |-> 1,
                     completed_sessions |-> 0,
                     status |-> "APPROVED",
                     notes |-> None]>>
    /\ sessions = create_sessions(1, <<ScheduleSlot(DaysPerMonth - 2, 9, 9 + SessionHours),
                                       ScheduleSlot(DaysPerMonth - 2, 10, 10 + SessionHours)>>)
                    \o create_sessions(2, <<ScheduleSlot(DaysPerMonth - 1, 9, 9 + SessionHours)>>)
    /\ payments = <<NoPayment, NoPayment>>
    /\ handled_months = {}
    /\ last = Result("init", "OK")

\* Each request makes one call, on any session or on one that does not exist.
NextNoShowRace ==
    \/ \E p \in Procs, i \in 1..(MaxRaceSessions + 1) :
        handle_no_show_count(p, i, PlaceholderUserId, None)
    \/ \E p \in Procs : handle_no_show_mark(p)

SpecNoShowRace == InitNoShowRace /\ [][NextNoShowRace]_vars

\* ------------------------------------------------------------------ claims
\* C1: in every state reached by booking requests, approvals, rejections,
\* cancellations, attendance marks, no-show handling and auto-attendance
\* runs, every booking has 0 <= completed_sessions <= total_sessions.
C1_CompletedWithinTotal ==
    \A b \in BookingIds :
        /\ 0 <= bookings[b].completed_sessions
        /\ bookings[b].completed_sessions <= bookings[b].total_sessions

\* A booking of two sessions, both marked attended.
C1_Witness ==
    \E b \in BookingIds :
        /\ bookings[b].total_sessions = 2
        /\ bookings[b].completed_sessions = 2

\* C2: every change of a booking's status is one of the edges
\* PENDING->APPROVED, APPROVED->IN_PROGRESS, IN_PROGRESS->COMPLETED,
\* PENDING->REJECTED, PENDING->CANCELLED, APPROVED->CANCELLED.
AllowedEdges ==
    {<<"PENDING", "APPROVED">>, <<"APPROVED", "IN_PROGRESS">>,
     <<"IN_PROGRESS", "COMPLETED">>, <<"PENDING", "REJECTED">>,
     <<"PENDING", "CANCELLED">>, <<"APPROVED", "CANCELLED">>}

C2_StatusMovesAlongEdges ==
    [][\A b \in BookingIds :
          bookings'[b].status # bookings[b].status
              => <<bookings[b].status, bookings'[b].status>> \in AllowedEdges]_vars

\* C3: once a booking is COMPLETED, CANCELLED or REJECTED, no operation
\* changes its status.
TerminalStatuses == {"COMPLETED", "CANCELLED", "REJECTED"}

C3_TerminalStatusStays ==
    [][\A b \in BookingIds :
          bookings[b].status \in TerminalStatuses
              => bookings'[b].status = bookings[b].status]_vars

\* C4: whenever an operation brings a booking's completed_sessions up to
\* total_sessions, the booking is COMPLETED when the operation returns,
\* whether the mark came from mark_attendance, the PATCH route or the
\* auto-attendance job.
C4_CompletionIsImplicit ==
    [][\A b \in BookingIds :
          (/\ bookings[b].completed_sessions < bookings[b].total_sessions
           /\ bookings'[b].completed_sessions = bookings'[b].total_sessions)
              => bookings'[b].status = "COMPLETED"]_vars

\* C5: mark_attendance on a session that is not SCHEDULED fails with
\* INVALID_SESSION_STATUS and changes neither the session nor the booking,
\* whatever mark is requested.
C5_MarkedSessionIsRejected ==
    [][\A i \in SessionIds, st \in AttendanceStatus :
          (/\ sessions[i].status # "SCHEDULED"
           /\ mark_attendance(i, st, PlaceholderUserId, None))
              => (/\ last'.code = "INVALID_SESSION_STATUS"
                  /\ sessions' = sessions
                  /\ bookings' = bookings)]_vars

\* C6: approve_booking and reject_booking by the booking's own tutor on a
\* booking that is not PENDING, and cancel_booking by the booking's own
\* student or tutor on a booking that is neither PENDING nor APPROVED, fail
\* with INVALID_STATUS and leave the booking as it was.
C6_WrongStatusIsRejected ==
    [][\A b \in BookingIds :
          /\ (/\ bookings[b].status # "PENDING"
              /\ approve_booking(b, bookings[b].tutor_id))
                 => (last'.code = "INVALID_STATUS" /\ bookings' = bookings)
          /\ (/\ bookings[b].status # "PENDING"
              /\ reject_booking(b, bookings[b].tutor_id))
                 => (last'.code = "INVALID_STATUS" /\ bookings' = bookings)
          /\ \A is_tutor \in BOOLEAN :
                (/\ bookings[b].status \notin {"PENDING", "APPROVED"}
                 /\ cancel_booking(b,
                        IF is_tutor THEN bookings[b].tutor_id
                        ELSE bookings[b].student_id,
                        is_tutor))
                   => (last'.code = "INVALID_STATUS" /\ bookings' = bookings)]_vars

\* The tutor's approval of a cancelled booking has just been refused.
C6_Witness ==
    /\ last.op = "approve_booking"
    /\ last.code = "INVALID_STATUS"
    /\ \E b \in BookingIds : bookings[b].status = "CANCELLED"

\* C7: under ONE_FREE, of the successful handle_no_show calls for the pair's
\* sessions of one calendar month, made within that month, exactly the first
\* returns is_billable = FALSE and every later one returns TRUE.  The pair's
\* no-shows of the month are the ones handle_no_show records: a call that
\* finds a no-show recorded before any call of the month is not counted.
C7_OnlyFirstNoShowIsFree ==
    [][\A i \in SessionIds :
          (/\ tutors[bookings[sessions[i].booking_id].tutor_id].no_show_policy = "ONE_FREE"
           /\ MonthOf(sessions[i].session_date) = CurrentYearMonth
           /\ \/ CurrentYearMonth \in handled_months
              \/ count_no_shows_in_month(bookings, sessions,
                     bookings[sessions[i].booking_id].tutor_id,
                     bookings[sessions[i].booking_id].student_id,
                     CurrentYearMonth) = 0
           /\ handle_no_show(i, PlaceholderUserId, None)
           /\ last'.code = "OK")
              => (last'.is_billable = (CurrentYearMonth \in handled_months))]_vars

\* C8: under ONE_FREE, when all the pair's no-shows of the current month
\* belong to the booking being refunded, the breakdown has
\* billable_no_show_count = no_show_count - 1 for every no_show_count >= 1.
C8_OneNoShowIsFree ==
    (/\ last.op = "execute"
     /\ last.code = "OK"
     /\ tutors[bookings[1].tutor_id].no_show_policy = "ONE_FREE"
     /\ last.value.no_show_count >= 1
     /\ count_no_shows_in_month(bookings, sessions, bookings[1].tutor_id,
                                bookings[1].student_id, CurrentYearMonth)
            = last.value.no_show_count)
        => last.value.billable_no_show_count = last.value.no_show_count - 1

\* C9: for a booking with a PAID payment, execute returns
\* session_rate = total_paid div total_sessions,
\* remaining_sessions = total - completed - no_show - cancelled,
\* refundable_sessions = remaining_sessions + (no_show - billable_no_show),
\* refund_amount = refundable_sessions * session_rate and pg_fee = 0, the
\* billable no-shows being all of them under FULL_DEDUCTION and none under NONE.
StatusCount(booking_id, status) ==
    Cardinality({i \in SessionIds :
        sessions[i].booking_id = booking_id /\ sessions[i].status = status})

C9_RefundBreakdownFormulas ==
    (last.op = "execute" /\ last.code = "OK")
        => LET v == last.value
               policy == tutors[bookings[1].tutor_id].no_show_policy
           IN  /\ payments[1].status = "PAID"
               /\ v.session_rate = payments[1].amount \div bookings[1].total_sessions
               /\ v.no_show_count = StatusCount(1, "NO_SHOW")
               /\ v.remaining_sessions =
                      bookings[1].total_sessions - bookings[1].completed_sessions
                          - StatusCount(1, "NO_SHOW") - StatusCount(1, "CANCELLED")
               /\ v.refundable_sessions =
                      v.remaining_sessions + (v.no_show_count - v.billable_no_show_count)
               /\ v.refund_amount = v.refundable_sessions * v.session_rate
               /\ v.pg_fee = 0
               /\ policy = "FULL_DEDUCTION" => v.billable_no_show_count = v.no_show_count
               /\ policy = "NONE" => v.billable_no_show_count = 0

\* 200,000 paid for 4 sessions, 1 completed, 1 no-show, FULL_DEDUCTION:
\* the breakdown returned refunds 100,000.
C9_Witness ==
    /\ last.op = "execute"
    /\ last.code = "OK"
    /\ payments[1].amount = 200000
    /\ bookings[1].total_sessions = 4
    /\ bookings[1].completed_sessions = 1
    /\ StatusCount(1, "NO_SHOW") = 1
    /\ StatusCount(1, "CANCELLED") = 0
    /\ tutors[bookings[1].tutor_id].no_show_policy = "FULL_DEDUCTION"
    /\ last.value.refund_amount = 100000

\* C10: for every booking with a PAID payment, whatever its sessions'
\* statuses, calculate_refund_estimate returns the refund_amount and the
\* remaining_sessions of the RefundBreakdown that execute computes.
C10_EstimateEqualsBreakdown ==
    \A b \in BookingIds :
        (/\ last.op = "calculate_refund_estimate"
         /\ last.code = "OK"
         /\ execute_code(b) = "OK")
            => LET breakdown == execute_value(b)
               IN  /\ last.value.refund_amount = breakdown.refund_amount
                   /\ last.value.remaining_sessions = breakdown.remaining_sessions

\* C11: two consecutive calls of execute on the same booking, with no
\* operation on the booking, its payment or its sessions in between, return
\* the same RefundBreakdown, and the call changes no booking, session or
\* payment.
C11_ExecuteIsIdempotent ==
    [][\A b \in BookingIds :
          (/\ last.op = "execute"
           /\ last.code = "OK"
           /\ execute(b))
              => (/\ last'.code = "OK"
                  /\ last'.value = last.value
                  /\ bookings' = bookings
                  /\ sessions' = sessions
                  /\ payments' = payments)]_vars

\* C12: execute fails with BOOKING_NOT_FOUND when the booking is absent,
\* otherwise with PAYMENT_NOT_FOUND when the booking has no payment,
\* otherwise with PAYMENT_NOT_PAID when the payment is not PAID; it returns
\* a breakdown only for a PAID payment.
C12_ExecuteErrors ==
    [][\A b \in 1..2 :
          execute(b)
              => /\ b \notin BookingIds => last'.code = "BOOKING_NOT_FOUND"
                 /\ (b \in BookingIds /\ payments[b].status = None)
                        => last'.code = "PAYMENT_NOT_FOUND"
                 /\ (b \in BookingIds /\ payments[b].status \in PaymentStatus \ {"PAID"})
                        => last'.code = "PAYMENT_NOT_PAID"
                 /\ last'.code = "OK"
                        => (b \in BookingIds /\ payments[b].status = "PAID")
                 /\ last'.code # "OK" => last'.value = NoValue]_vars

\* execute has just refused a booking whose payment was refunded.
C12_Witness ==
    /\ last.op = "execute"
    /\ last.code = "PAYMENT_NOT_PAID"
    /\ payments[1].status = "REFUNDED"

\* C13: a monthly settlement run (either use case, or the job) that meets a
\* tutor who already has a Settlement for the run's month leaves every row
\* of the table as it was, adds no row for that tutor and month, counts the
\* tutor in failed and not in processed; and the same run taken again right
\* after it would create nothing and report processed = 0.
DuplicateTutors(year_month) ==
    {t \in DOMAIN calculate_tutor_revenue(year_month) :
        existing_rows(settlements, t, year_month) # {}}

RunSkipsDuplicates(year_month) ==
    /\ Len(settlements') >= Len(settlements)
    /\ \A i \in SettlementIds : settlements'[i] = settlements[i]
    /\ \A t \in DuplicateTutors(year_month) :
        existing_rows(settlements', t, year_month)
            = existing_rows(settlements, t, year_month)
    /\ last'.value.failed = Cardinality(DuplicateTutors(year_month))
    /\ last'.value.processed =
           Cardinality(DOMAIN calculate_tutor_revenue(year_month)
                           \ DuplicateTutors(year_month))

C13_DuplicateIsSkipped ==
    [][/\ \A ym \in YearMonths :
            (last'.op = "calculate_monthly_settlements"
                /\ calculate_monthly_settlements(ym))
                => /\ RunSkipsDuplicates(ym)
                   /\ calculate_monthly_settlements_run(ym)'.processed = 0
                   /\ calculate_monthly_settlements_run(ym)'.settlements = settlements'
       /\ \A ym \in YearMonths :
            (last'.op = "calculate_all_tutors_settlement"
                /\ calculate_all_tutors_settlement(ym))
                => /\ RunSkipsDuplicates(ym)
                   /\ calculate_all_tutors_settlement_run(ym)'.processed = 0
                   /\ calculate_all_tutors_settlement_run(ym)'.settlements = settlements'
       /\ \A ym \in {2, NoMonth} :
            (last'.op = "monthly_settlement_job" /\ monthly_settlement_job(ym))
                => /\ RunSkipsDuplicates(target_month(ym))
                   /\ calculate_monthly_settlements_run(target_month(ym))'.processed = 0]_vars

\* A run has met a settled tutor: it created nothing and counted a failure.
C13_Witness ==
    /\ last.op \in {"calculate_monthly_settlements", "calculate_all_tutors_settlement"}
    /\ last.value.processed = 0
    /\ last.value.failed = 2
    /\ Len(settlements) = 2

\* C14: after any sequence of settlement-creating operations run one at a
\* time, the table holds at most one Settlement for a tutor and a month.
C14_OneSettlementPerTutorMonth ==
    \A i \in SettlementIds, j \in SettlementIds :
        (/\ settlements[i].tutor_id = settlements[j].tutor_id
         /\ settlements[i].year_month = settlements[j].year_month) => i = j

\* C16: every Settlement the monthly aggregator creates (by either use case,
\* for all tutors or for one) has total_amount = hourly_rate * the number of
\* counted sessions, platform_fee = floor(total_amount * 5 / 100), pg_fee =
\* floor(total_amount * 3 / 100), net_amount = total_amount - platform_fee -
\* pg_fee, and is_paid = false.  The fees of a stored Settlement are the
\* ones the repository reads back.
AggregatorStep ==
    \/ /\ last'.op = "calculate_monthly_settlements"
       /\ \E ym \in YearMonths : calculate_monthly_settlements(ym)
    \/ /\ last'.op = "calculate_all_tutors_settlement"
       /\ \E ym \in YearMonths : calculate_all_tutors_settlement(ym)
    \/ /\ last'.op = "calculate_monthly_settlement"
       /\ \E t \in TutorIds, ym \in YearMonths : calculate_monthly_settlement(t, ym)

SettlementFormulas(id, row) ==
    LET total == or_zero(tutors[row.tutor_id].hourly_rate)
                     * Cardinality(revenue_sessions(row.tutor_id, row.year_month))
        settlement == to_entity(id, row)
    IN  /\ amount_or_zero(settlement.total_amount) = total
        /\ amount_or_zero(settlement.platform_fee) = (total * 5) \div 100
        /\ amount_or_zero(settlement.pg_fee) = (total * 3) \div 100
        /\ amount_or_zero(settlement.net_amount)
               = total - (total * 5) \div 100 - (total * 3) \div 100
        /\ settlement.is_paid = FALSE

C16_SettlementAmounts ==
    [][AggregatorStep
          => \A i \in (Len(settlements) + 1)..Len(settlements') :
                SettlementFormulas(i, settlements'[i])]_vars

\* C17: in every step that takes a Settlement from is_paid = false to
\* is_paid = true, the step is a call of mark_as_paid.
MarkAsPaidStep ==
    /\ last'.op = "mark_as_paid"
    /\ \E id \in 1..MaxSettlements, paid_at \in {NoTime, NowStart} :
        mark_as_paid(id, paid_at)

C17_PaidOnlyByMarkAsPaid ==
    [][(\E i \in SettlementIds :
            /\ i <= Len(settlements')
            /\ ~settlements[i].is_paid
            /\ settlements'[i].is_paid)
          => MarkAsPaidStep]_vars

\* C18: a step of mark_as_paid, of disburse_payments or of the payment
\* disbursement job leaves the number of Settlements and, in each of them,
\* tutor_id, year_month, total_sessions, total_amount, the stored fee and
\* net_amount as they were, also when total_amount or the fee is 0.
DisbursementStep ==
    \/ MarkAsPaidStep
    \/ /\ last'.op = "disburse_payments"
       /\ \E ym \in YearMonths \cup {NoMonth} : disburse_payments(ym)
    \/ /\ last'.op = "payment_disbursement_job"
       /\ \E ym \in YearMonths \cup {NoMonth} : payment_disbursement_job(ym)

C18_PayingKeepsAmounts ==
    [][DisbursementStep
          => /\ Len(settlements') = Len(settlements)
             /\ \A i \in SettlementIds :
                 /\ settlements'[i].tutor_id = settlements[i].tutor_id
                 /\ settlements'[i].year_month = settlements[i].year_month
                 /\ settlements'[i].total_sessions = settlements[i].total_sessions
                 /\ settlements'[i].total_amount = settlements[i].total_amount
                 /\ settlements'[i].total_fee = settlements[i].total_fee
                 /\ settlements'[i].net_amount = settlements[i].net_amount
                 /\ settlements'[i].created_at = settlements[i].created_at]_vars

\* mark_as_paid has paid a Settlement whose total_amount and fee are 0, with
\* a Settlement of non-zero amounts in the table.
C18_Witness ==
    /\ last.op = "mark_as_paid"
    /\ last.code = "OK"
    /\ last.value.is_paid
    /\ last.value.total_amount = NoMoney
    /\ last.value.platform_fee = NoMoney
    /\ \E i \in SettlementIds : settlements[i].total_fee > 0

\* C15: while monthly settlement runs execute concurrently, their existence
\* checks and inserts interleaved in any order, no tutor has two Settlement
\* rows for one month.
C15_ConcurrentRunsSettleOnce ==
    \A t \in TutorIds, ym \in YearMonths :
        Cardinality(existing_rows(settlements, t, ym)) <= 1

\* C19: of two create_booking_request calls for one tutor whose slots
\* overlap on the same date, at most one succeeds, whether they run one
\* after the other or interleaved: no two bookings of a tutor hold sessions
\* that overlap on one date.
C19_OverlappingRequestsExclude ==
    \A a \in BookingIds, b \in BookingIds :
        (a # b /\ bookings[a].tutor_id = bookings[b].tutor_id)
            => ~\E x \in SessionIds, y \in SessionIds :
                    /\ sessions[x].booking_id = a
                    /\ sessions[y].booking_id = b
                    /\ sessions[x].session_date = sessions[y].session_date
                    /\ overlaps(TimeRange(sessions[x].session_time,
                                          sessions[x].session_time + SessionHours),
                                TimeRange(sessions[y].session_time,
                                          sessions[y].session_time + SessionHours))

\* C20: for slots built by the booking route, find_schedule_conflicts
\* returns exactly the new slots for which some existing slot lies on the
\* same calendar date with an overlapping time range (ranges that only
\* touch do not overlap).
C20_ConflictsAreSameDateOverlaps ==
    \A p \in Procs :
        calls[p].pc = "returned"
            => last.value =
                   SelectSeq(calls[p].new_slots,
                       LAMBDA new_slot :
                           \E i \in 1..Len(calls[p].existing_slots) :
                               LET existing_slot == calls[p].existing_slots[i]
                               IN  /\ DayOf(new_slot.date) = DayOf(existing_slot.date)
                                   /\ new_slot.time_range.start_time
                                          < existing_slot.time_range.end_time
                                   /\ existing_slot.time_range.start_time
                                          < new_slot.time_range.end_time)
\* C21: a create_booking_request that fails reports the first failing check
\* in the order tutor found, tutor approved, every slot 24 hours ahead, no
\* conflict; it creates no booking and no session and changes no record.
C21_FailedRequestChangesNothing ==
    [][\A s \in BookingStudents, t \in TutorIds, sl \in SlotLists :
          (last'.op = "create_booking_request" /\ create_booking_request(s, t, sl, None))
              => LET found == t \in DOMAIN tutors
                     approved == found /\ tutors[t].is_approved
                     too_soon == \E i \in 1..Len(sl) : SlotStart(sl[i]) < now + MinLeadHours
                     conflict == \E i \in 1..Len(sl) : slot_conflicts(t, sl[i])
                 IN  /\ ~found => last'.code = "TUTOR_NOT_FOUND"
                     /\ (found /\ ~approved) => last'.code = "TUTOR_NOT_APPROVED"
                     /\ (approved /\ too_soon) => last'.code = "SLOT_TOO_SOON"
                     /\ (approved /\ ~too_soon /\ conflict)
                            => last'.code = "SCHEDULE_CONFLICT"
                     /\ last'.code # "OK"
                            => /\ last'.code \in {"TUTOR_NOT_FOUND", "TUTOR_NOT_APPROVED",
                                                  "SLOT_TOO_SOON", "SCHEDULE_CONFLICT"}
                               /\ UNCHANGED <<bookings, sessions, payments, tutors,
                                              settlements>>]_vars

\* A request was refused as too soon while the tutor holds an approved
\* booking whose first slot the clock has come within 24 hours of.
C21_Witness ==
    /\ last.op = "create_booking_request"
    /\ last.code = "SLOT_TOO_SOON"
    /\ \E b \in BookingIds, x \in SessionIds :
        /\ bookings[b].status = "APPROVED"
        /\ sessions[x].booking_id = b
        /\ sessions[x].session_date * HoursPerDay + sessions[x].session_time
               < now + MinLeadHours
\* C22: a create_booking_request that succeeds adds exactly one booking,
\* PENDING with completed_sessions = 0 and total_sessions = the number of
\* requested slots, and exactly one SCHEDULED session per requested slot,
\* each owned by the new booking; the rows that existed stay as they were.
C22_RequestCreatesBookingAndSessions ==
    [][\A s \in BookingStudents, t \in TutorIds, sl \in SlotLists :
          (/\ last'.op = "create_booking_request"
           /\ last'.code = "OK"
           /\ create_booking_request(s, t, sl, None))
              => LET id == Len(bookings) + 1
                 IN  /\ Len(bookings') = id
                     /\ SubSeq(bookings', 1, Len(bookings)) = bookings
                     /\ bookings'[id].status = "PENDING"
                     /\ bookings'[id].completed_sessions = 0
                     /\ bookings'[id].total_sessions = Len(sl)
                     /\ bookings'[id].student_id = s
                     /\ bookings'[id].tutor_id = t
                     /\ Len(sessions') = Len(sessions) + Len(sl)
                     /\ SubSeq(sessions', 1, Len(sessions)) = sessions
                     /\ \A i \in 1..Len(sl) :
                            LET session == sessions'[Len(sessions) + i]
                            IN  /\ session.booking_id = id
                                /\ session.status = "SCHEDULED"
                                /\ session.session_date = sl[i].date
                                /\ session.session_time = sl[i].time_range.start_time]_vars

\* A request for two slots has succeeded as the second booking.
C22_Witness ==
    /\ last.op = "create_booking_request"
    /\ last.code = "OK"
    /\ Len(bookings) = 2
    /\ bookings[2].total_sessions = 2
    /\ Cardinality({x \in SessionIds : sessions[x].booking_id = 2}) = 2
C24_ConcurrentMarksCountOnce ==
    calls = NoCalls
        => \A b \in BookingIds :
               bookings[b].completed_sessions =
                   Cardinality({x \in SessionIds :
                       sessions[x].booking_id = b /\ sessions[x].status = "COMPLETED"})
\* C25: an auto-attendance batch run again right after a run, with nothing
\* in between, processes no session and leaves every session and every
\* booking as the first run left them; for auto_attendance_job and for
\* auto_mark_attendance_deadline.
C25_SecondBatchRunIsNoOp ==
    [][/\ (last'.op = "auto_attendance_job" /\ auto_attendance_job)
            => /\ auto_attendance_job_run'.processed = 0
               /\ auto_attendance_job_run'.sessions = sessions'
               /\ auto_attendance_job_run'.bookings = bookings'
       /\ (last'.op = "auto_mark_attendance_deadline" /\ auto_mark_attendance_deadline)
            => /\ auto_mark_attendance_deadline_run'.processed = 0
               /\ auto_mark_attendance_deadline_run'.sessions = sessions'
               /\ auto_mark_attendance_deadline_run'.bookings = bookings']_vars

\* A run of auto_attendance_job has just marked a session.
C25_Witness ==
    /\ last.op = "auto_attendance_job"
    /\ \E x \in SessionIds :
        /\ sessions[x].status = "COMPLETED"
        /\ sessions[x].attendance_checked_at = now
        /\ bookings[sessions[x].booking_id].completed_sessions >= 1
\* C26: auto_attendance_job marks a session only if the session is SCHEDULED
\* and its attendance deadline, the end of the calendar day after the
\* session date, has passed when the job runs; a session dated on the day of
\* the run stays as it is.
C26_BatchMarksOnlyPastDeadline ==
    [][(last'.op = "auto_attendance_job" /\ auto_attendance_job)
          => \A x \in SessionIds :
                 /\ sessions'[x] # sessions[x]
                        => /\ sessions[x].status = "SCHEDULED"
                           /\ now >= (sessions[x].session_date + 2) * HoursPerDay
                 /\ sessions[x].session_date = DayOf(now)
                        => sessions'[x] = sessions[x]]_vars
\* The tutors with revenue in the month that have no settlement yet and
\* whose own settlement can be created all have one after the run, and the
\* run returns counts that add up to the number of tutors with revenue.
RunIsolatesFailures(year_month) ==
    LET revenue == calculate_tutor_revenue(year_month)
        unsettled == {t \in DOMAIN revenue :
                         existing_rows(settlements, t, year_month) = {}}
    IN  /\ \A t \in unsettled :
               revenue[t].total_amount # TooLarge
                   => existing_rows(settlements', t, year_month) # {}
        /\ last'.code = "OK"
        /\ last'.value.processed + last'.value.failed = Cardinality(DOMAIN revenue)

\* C27: in a monthly settlement run a failure while one tutor's settlement
\* is created does not stop the run: every other tutor with revenue in the
\* month and no settlement yet gets one, and processed + failed is the
\* number of tutors with revenue in the month.
C27_FailureDoesNotStopRun ==
    [][\A ym \in YearMonths :
          (\/ (last'.op = "calculate_monthly_settlements"
                  /\ calculate_monthly_settlements(ym))
           \/ (last'.op = "monthly_settlement_job" /\ ym = target_month(NoMonth)
                  /\ monthly_settlement_job(NoMonth))
           \/ (last'.op = "calculate_all_tutors_settlement"
                  /\ calculate_all_tutors_settlement(ym)))
              => RunIsolatesFailures(ym)]_vars
\* C28: a mark_attendance that succeeds on a SCHEDULED session sets the
\* session's status to COMPLETED, NO_SHOW or CANCELLED for a mark of
\* ATTENDED, NO_SHOW or CANCELLED, adds one to the booking's
\* completed_sessions for ATTENDED and nothing otherwise, and changes no
\* other session and no other booking.
C28_MarkChangesOneSessionOneCounter ==
    [][\A i \in SessionIds, st \in AttendanceStatus :
          (/\ sessions[i].status = "SCHEDULED"
           /\ last'.op = "mark_attendance"
           /\ last'.code = "OK"
           /\ mark_attendance(i, st, PlaceholderUserId, None))
              => LET b == sessions[i].booking_id
                 IN  /\ sessions'[i].status =
                            (CASE st = "ATTENDED" -> "COMPLETED"
                               [] st = "NO_SHOW" -> "NO_SHOW"
                               [] st = "CANCELLED" -> "CANCELLED")
                     /\ bookings'[b].completed_sessions =
                            bookings[b].completed_sessions
                                + (IF st = "ATTENDED" THEN 1 ELSE 0)
                     /\ Len(sessions') = Len(sessions)
                     /\ Len(bookings') = Len(bookings)
                     /\ \A x \in SessionIds \ {i} : sessions'[x] = sessions[x]
                     /\ \A c \in BookingIds \ {b} : bookings'[c] = bookings[c]]_vars

\* The only session of the second booking has been marked attended, with
\* the first booking's sessions still to come.
C28_Witness ==
    /\ last.op = "mark_attendance"
    /\ last.code = "OK"
    /\ Len(bookings) = 2
    /\ sessions[3].status = "COMPLETED"
    /\ bookings[2].completed_sessions = 1
    /\ bookings[1].completed_sessions = 0
    /\ \A x \in {1, 2} : sessions[x].status = "SCHEDULED"
\* C29: approve_booking and reject_booking succeed only for the booking's
\* tutor_id, cancel_booking only for the booking's tutor_id when is_tutor
\* is true and for its student_id when is_tutor is false; any other caller
\* of an existing booking gets NOT_AUTHORIZED, whatever the booking's
\* status, and the booking stays as it was.
C29_OnlyTheOwnerActs ==
    [][\A b \in BookingIds, u \in BookingCallers :
          /\ (last'.op = "approve_booking" /\ approve_booking(b, u))
                => /\ last'.code = "OK" => u = bookings[b].tutor_id
                   /\ u # bookings[b].tutor_id
                          => (last'.code = "NOT_AUTHORIZED" /\ bookings' = bookings)
          /\ (last'.op = "reject_booking" /\ reject_booking(b, u))
                => /\ last'.code = "OK" => u = bookings[b].tutor_id
                   /\ u # bookings[b].tutor_id
                          => (last'.code = "NOT_AUTHORIZED" /\ bookings' = bookings)
          /\ \A is_tutor \in BOOLEAN :
                (last'.op = "cancel_booking" /\ cancel_booking(b, u, is_tutor))
                    => LET owner == IF is_tutor THEN bookings[b].tutor_id
                                    ELSE bookings[b].student_id
                       IN  /\ last'.code = "OK" => u = owner
                           /\ u # owner
                                  => (last'.code = "NOT_AUTHORIZED"
                                        /\ bookings' = bookings)]_vars

\* A cancellation was refused as not authorized when no booking was left
\* that could be cancelled.
C29_Witness ==
    /\ last.op = "cancel_booking"
    /\ last.code = "NOT_AUTHORIZED"
    /\ Len(bookings) = 2
    /\ \A b \in BookingIds : bookings[b].status \in {"REJECTED", "CANCELLED"}
\* The sessions the month's settlement of a tutor is to count: COMPLETED,
\* dated on a day of the month, in a booking of the tutor that is APPROVED,
\* IN_PROGRESS or COMPLETED.
MonthSessions(tutor_id, year_month) ==
    {s \in SessionIds :
        /\ sessions[s].status = "COMPLETED"
        /\ sessions[s].session_date >= (year_month - 1) * DaysPerMonth + 1
        /\ sessions[s].session_date <= year_month * DaysPerMonth
        /\ bookings[sessions[s].booking_id].tutor_id = tutor_id
        /\ bookings[sessions[s].booking_id].status
               \in {"APPROVED", "IN_PROGRESS", "COMPLETED"}}

\* C30: a monthly run gives a tutor without a settlement for the month one
\* that counts exactly the tutor's COMPLETED sessions dated from the first
\* to the last day of the month, the last day included whatever the time
\* of day, in bookings that are APPROVED, IN_PROGRESS or COMPLETED; a tutor
\* with no such session gets no settlement.
C30_AggregatorCountsTheMonth ==
    [][\A ym \in YearMonths :
          (last'.op = "calculate_monthly_settlements"
              /\ calculate_monthly_settlements(ym))
              => \A t \in DOMAIN tutors :
                     existing_rows(settlements, t, ym) = {}
                         => IF MonthSessions(t, ym) = {}
                            THEN existing_rows(settlements', t, ym) = {}
                            ELSE \E i \in existing_rows(settlements', t, ym) :
                                     settlements'[i].total_sessions =
                                         Cardinality(MonthSessions(t, ym))]_vars
\* C31: under the ONE_FREE policy, of two handle_no_show calls for the same
\* tutor, student and month that run at the same time, at most one returns
\* is_billable = false.  The two calls looked at are for two different
\* sessions of the pair.
C31_ConcurrentNoShowsOneFree ==
    tutors[1].no_show_policy = "ONE_FREE"
        => ~(/\ \A p \in Procs : calls[p].pc = "returned" /\ ~calls[p].is_billable
             /\ calls[1].session_id # calls[2].session_id)
\* C32: is_billable_on_no_show returns true under FULL_DEDUCTION and false
\* under NONE for every input; under ONE_FREE, called as handle_no_show calls
\* it, it returns false when the inclusive monthly count is 1 and true when
\* the count is 2 or more.
InclusiveCounts == 1..(MaxSessions + 1)

C32_PolicyDecision ==
    [][(last'.op = "handle_no_show" /\ last'.code = "OK")
        => LET inclusive == count_no_shows_in_month(bookings, sessions, 1, 1,
                                                    CurrentYearMonth) + 1
               policy == tutors[1].no_show_policy
           IN  /\ \A c \in InclusiveCounts, f \in BOOLEAN :
                    /\ is_billable_on_no_show("FULL_DEDUCTION", c, f)
                    /\ ~is_billable_on_no_show("NONE", c, f)
                    /\ is_billable_on_no_show("ONE_FREE", c, f) = ~f
               /\ policy = "FULL_DEDUCTION" => last'.is_billable
               /\ policy = "NONE" => ~last'.is_billable
               /\ policy = "ONE_FREE" => (last'.is_billable = (inclusive >= 2))
               /\ policy = "ONE_FREE" => (~last'.is_billable = (inclusive = 1))]_vars

C32_Witness ==
    /\ last.op = "handle_no_show"
    /\ last.code = "OK"
    /\ tutors[1].no_show_policy = "ONE_FREE"
    /\ last.is_billable
    /\ count_no_shows_in_month(bookings, sessions, 1, 1, CurrentYearMonth) >= 2
\* C33: every booking owns exactly total_sessions sessions, and no operation
\* deletes a session or changes its booking_id, session_date or session_time
\* once it is created.
C33_SessionsAreFixed ==
    [][/\ \A b \in 1..Len(bookings') :
            Cardinality({i \in 1..Len(sessions') : sessions'[i].booking_id = b})
                = bookings'[b].total_sessions
       /\ \A i \in SessionIds :
            /\ i \in 1..Len(sessions')
            /\ sessions'[i].booking_id = sessions[i].booking_id
            /\ sessions'[i].session_date = sessions[i].session_date
            /\ sessions'[i].session_time = sessions[i].session_time]_vars

C33_Witness ==
    /\ Len(bookings) = 1
    /\ bookings[1].total_sessions = 2
    /\ Len(sessions) = 2
    /\ \A i \in SessionIds : sessions[i].status # "SCHEDULED"
    /\ \E i \in SessionIds : sessions[i].attendance_checked_by = PlaceholderUserId
    /\ \E i \in SessionIds : sessions[i].attendance_checked_by = NoUser
\* C34: with operations run one at a time (marks through the use case, the
\* attendance route and the auto-attendance batch, in any order), each
\* booking's completed_sessions equals the number of its sessions whose
\* status is COMPLETED.
C34_CounterCountsCompleted ==
    \A b \in BookingIds :
        bookings[b].completed_sessions
            = Cardinality({i \in SessionIds :
                              /\ sessions[i].booking_id = b
                              /\ sessions[i].status = "COMPLETED"})

C34_Witness ==
    /\ Len(bookings) = 1
    /\ bookings[1].completed_sessions = 2
    /\ \E i \in SessionIds :
        /\ sessions[i].status = "COMPLETED"
        /\ sessions[i].attendance_checked_by = PlaceholderUserId
    /\ \E i \in SessionIds :
        /\ sessions[i].status = "COMPLETED"
        /\ sessions[i].attendance_checked_by = NoUser
\* C35: no tutor has two distinct sessions with overlapping time ranges on
\* the same calendar date that belong to bookings whose status is APPROVED
\* or IN_PROGRESS, whether of different bookings or of the same booking.
C35_NoOverlappingApprovedSessions ==
    \A i, j \in SessionIds :
        (/\ i # j
         /\ bookings[sessions[i].booking_id].tutor_id
                = bookings[sessions[j].booking_id].tutor_id
         /\ bookings[sessions[i].booking_id].status \in {"APPROVED", "IN_PROGRESS"}
         /\ bookings[sessions[j].booking_id].status \in {"APPROVED", "IN_PROGRESS"}
         /\ sessions[i].session_date = sessions[j].session_date)
            => ~overlaps(TimeRange(sessions[i].session_time,
                                   sessions[i].session_time + SessionHours),
                         TimeRange(sessions[j].session_time,
                                   sessions[j].session_time + SessionHours))
\* C36: no session leaves the SCHEDULED status while its booking is PENDING,
\* REJECTED or CANCELLED: attendance is recorded only for sessions of
\* bookings that are APPROVED or IN_PROGRESS, through the use case, the
\* attendance route and the auto-attendance batch alike.
C36_AttendanceOnlyForActiveBookings ==
    [][\A i \in SessionIds :
          (sessions[i].status = "SCHEDULED" /\ sessions'[i].status # "SCHEDULED")
              => bookings[sessions[i].booking_id].status
                    \in {"APPROVED", "IN_PROGRESS"}]_vars
\* C37: for every booking with a PAID payment, in states reached by
\* operations run one at a time, the refund breakdown has
\* remaining_sessions >= 0, 0 <= refund_amount <= total_paid and
\* refund_amount + completed_session_cost + no_show_cost <= total_paid,
\* under each of the three no-show policies.
C37_RefundWithinPaid ==
    \A b \in BookingIds :
        execute_code(b) = "OK"
            => LET v == execute_value(b)
               IN  /\ v.remaining_sessions >= 0
                   /\ 0 <= v.refund_amount
                   /\ v.refund_amount <= v.total_paid
                   /\ v.refund_amount + v.completed_session_cost + v.no_show_cost
                        <= v.total_paid

C37_Witness ==
    /\ last.op = "execute"
    /\ last.code = "OK"
    /\ tutors[1].no_show_policy = "ONE_FREE"
    /\ last.value.total_sessions = MaxRefundSessions
    /\ last.value.completed_session_cost > 0
    /\ last.value.no_show_cost > 0
    /\ last.value.no_show_count > last.value.billable_no_show_count
    /\ last.value.refund_amount > 0
    /\ last.value.refund_amount + last.value.completed_session_cost
          + last.value.no_show_cost < last.value.total_paid
\* C38: a newly computed Settlement saved with SettlementRepository.save and
\* read back has the total_amount, platform_fee, pg_fee and net_amount that
\* were saved, so that net_amount = total_amount - platform_fee - pg_fee
\* holds on the record read back.
C38_SavedSettlementReadsBack ==
    [][(last'.op = "calculate_monthly_settlement" /\ last'.code = "OK")
        => LET id == Len(settlements')
               read == to_entity(id, settlements'[id])
               saved == calculated_settlement(
                            read.tutor_id, read.year_month,
                            calculate_tutor_revenue(read.year_month)[read.tutor_id])
           IN  /\ read.total_amount = saved.total_amount
               /\ read.platform_fee = saved.platform_fee
               /\ read.pg_fee = saved.pg_fee
               /\ read.net_amount = saved.net_amount
               /\ read.net_amount
                    = read.total_amount - read.platform_fee - read.pg_fee]_vars

\* C39: once every session of an approved booking has left SCHEDULED (each
\* marked ATTENDED, NO_SHOW or CANCELLED), the booking is in a terminal
\* status and not left APPROVED or IN_PROGRESS, also when one of its
\* sessions is a no-show or was cancelled.
C39_MarkedBookingIsTerminal ==
    \A b \in BookingIds :
        (/\ list_sessions(b) # {}
         /\ \A i \in list_sessions(b) : sessions[i].status # "SCHEDULED")
            => bookings[b].status \notin {"APPROVED", "IN_PROGRESS"}
====
